---- MODULE Spec2Model ----
(***************************************************************************)
(* Model of xbout/region.py: the topology classifier (_get_topology), the  *)
(* region builder (_create_regions_toroidal), the Region slicing methods   *)
(* and the four guard-cell stitchers (_concat_*_guards).                   *)
(*                                                                         *)
(* A run of the program is: a dataset is opened (its metadata is the       *)
(* input), the topology is classified, the regions are built, and a region *)
(* is extracted from the global array with some guard widths.              *)
(***************************************************************************)
EXTENDS Integers, Sequences, FiniteSets, TLC

VARIABLES metadata, has_coords, with_guards, pc, topology, regions, err,
          region_name, result, slices, call

vars == <<metadata, has_coords, with_guards, pc, topology, regions, err,
          region_name, result, slices, call>>

None == "None"

Min(a, b) == IF a < b THEN a ELSE b
Max(a, b) == IF a > b THEN a ELSE b

(***************************************************************************)
(* Bounds of the model                                                     *)
(***************************************************************************)
\* largest guard width (MXG, MYG and the requested widths range over 0..MaxG)
MaxG == 2
\* longest chain of nested fetches followed
MaxFetch == 4
\* longest sequence of calls made on one extracted array
MaxSeq == 2
\* number of x points of the general family of datasets
NX == 7
\* number of y points (without boundary cells) of the general family
NY == 7

(***************************************************************************)
(* region.py: helpers                                                      *)
(***************************************************************************)
\* a variant that clamps from below only
InRangeLowerOnly(val, lower, upper) ==
    IF val < lower THEN lower
    ELSE val

_in_range(val, lower, upper) ==
    IF val < lower THEN lower
    ELSE IF val > upper THEN upper
    ELSE val

\* returns the pair (lower, upper), swapped if upper < lower
_order_vars(lower, upper) ==
    IF upper < lower THEN <<upper, lower>> ELSE <<lower, upper>>

(***************************************************************************)
(* region.py: _get_topology.  "ValueError" stands for the raised           *)
(* ValueError('Currently unsupported topology').                           *)
(***************************************************************************)
\* a classifier whose core test is ix > nx - 1 instead of ix >= nx - 1
GetTopologyStrictCore(md) ==
    LET ix == Min(md.ixseps1, md.ixseps2)
    IN  IF md.jyseps2_1 = md.jyseps1_2
        THEN IF md.jyseps1_1 <= 0 /\ md.jyseps2_2 >= md.ny - 1
             THEN IF ix > md.nx - 1 THEN "core"
                  ELSE IF ix <= 0 THEN "sol"
                  ELSE "limiter"
             ELSE "single-null"
        ELSE IF md.jyseps1_1 = md.jyseps2_1 /\ md.jyseps1_2 = md.jyseps2_2
        THEN IF md.jyseps1_1 < md.ny_inner - 1 /\ md.jyseps2_2 > md.ny_inner
             THEN "xpoint"
             ELSE "ValueError"
        ELSE IF md.ixseps1 = md.ixseps2
        THEN IF md.jyseps2_1 < md.ny_inner - 1 /\ md.jyseps1_2 > md.ny_inner
             THEN "connected-double-null"
             ELSE "ValueError"
        ELSE "disconnected-double-null"

\* a classifier whose connected-double-null test looks at the outer branch
\* cuts jyseps1_1 and jyseps2_2 instead of the inner ones
GetTopologyOuterCuts(md) ==
    LET ix == Min(md.ixseps1, md.ixseps2)
    IN  IF md.jyseps2_1 = md.jyseps1_2
        THEN IF md.jyseps1_1 <= 0 /\ md.jyseps2_2 >= md.ny - 1
             THEN IF ix >= md.nx - 1 THEN "core"
                  ELSE IF ix <= 0 THEN "sol"
                  ELSE "limiter"
             ELSE "single-null"
        ELSE IF md.jyseps1_1 = md.jyseps2_1 /\ md.jyseps1_2 = md.jyseps2_2
        THEN IF md.jyseps1_1 < md.ny_inner - 1 /\ md.jyseps2_2 > md.ny_inner
             THEN "xpoint"
             ELSE "ValueError"
        ELSE IF md.ixseps1 = md.ixseps2
        THEN IF md.jyseps1_1 < md.ny_inner - 1 /\ md.jyseps2_2 > md.ny_inner
             THEN "connected-double-null"
             ELSE "ValueError"
        ELSE "disconnected-double-null"

_get_topology(md) ==
    LET jys11 == md.jyseps1_1
        jys21 == md.jyseps2_1
        nyinner == md.ny_inner
        jys12 == md.jyseps1_2
        jys22 == md.jyseps2_2
        ny == md.ny
        ixs1 == md.ixseps1
        ixs2 == md.ixseps2
        nx == md.nx
        ix == Min(ixs1, ixs2)
    IN  IF jys21 = jys12
        THEN IF jys11 <= 0 /\ jys22 >= ny - 1
             THEN IF ix >= nx - 1 THEN "core"
                  ELSE IF ix <= 0 THEN "sol"
                  ELSE "limiter"
             ELSE "single-null"
        ELSE IF jys11 = jys21 /\ jys12 = jys22
        THEN IF jys11 < nyinner - 1 /\ jys22 > nyinner
             THEN "xpoint"
             ELSE "ValueError"
        ELSE IF ixs1 = ixs2
        THEN IF jys21 < nyinner - 1 /\ jys12 > nyinner
             THEN "connected-double-null"
             ELSE "ValueError"
        ELSE "disconnected-double-null"

Topologies == {"core", "sol", "limiter", "xpoint", "single-null",
               "connected-double-null", "disconnected-double-null"}

(***************************************************************************)
(* region.py: _create_regions_toroidal, preprocessing                      *)
(***************************************************************************)
\* "Make sure all sizes are sensible": the clamped and ordered breakpoints
Clamped(md) ==
    LET nx == md.nx
        ny == md.ny
        ixs == _order_vars(_in_range(md.ixseps1, 0, nx),
                           _in_range(md.ixseps2, 0, nx))
        jys11 == _in_range(md.jyseps1_1, 0, ny - 1)
        jin == _order_vars(_in_range(md.jyseps2_1, 0, ny - 1),
                           _in_range(md.jyseps1_2, 0, ny - 1))
        nyinner == _in_range(md.ny_inner, jin[1] + 1, jin[2] + 1)
        jys22 == _in_range(md.jyseps2_2, 0, ny - 1)
    IN  [ixs1 |-> ixs[1], ixs2 |-> ixs[2], nx |-> nx,
         jys11 |-> jys11, jys21 |-> jin[1], nyinner |-> nyinner,
         jys12 |-> jin[2], jys22 |-> jys22, ny |-> ny]

\* a variant that shifts the x breakpoints whether or not the x-boundary
\* cells are kept
AdjustedShiftAlways(md) ==
    LET c == Clamped(md)
        mxg == md.MXG
        myg == md.MYG
        ybndry == md.keep_yboundaries * myg
        ybndry_upper == IF md.jyseps2_1 = md.jyseps1_2 THEN 0 ELSE ybndry
        xshift == mxg
    IN  [ixs1 |-> c.ixs1 - xshift, ixs2 |-> c.ixs2 - xshift,
         nx |-> c.nx - 2 * xshift,
         jys11 |-> c.jys11 + ybndry,
         jys21 |-> c.jys21 + ybndry,
         nyinner |-> c.nyinner + ybndry + ybndry_upper,
         jys12 |-> c.jys12 + ybndry + 2 * ybndry_upper,
         jys22 |-> c.jys22 + ybndry + 2 * ybndry_upper,
         ny |-> c.ny + 2 * ybndry + 2 * ybndry_upper,
         ybndry |-> ybndry, ybndry_upper |-> ybndry_upper]

\* a variant that shifts ny_inner by the lower boundary only
AdjustedInnerLowerOnly(md) ==
    LET c == Clamped(md)
        mxg == md.MXG
        myg == md.MYG
        ybndry == md.keep_yboundaries * myg
        ybndry_upper == IF md.jyseps2_1 = md.jyseps1_2 THEN 0 ELSE ybndry
        xshift == IF md.keep_xboundaries = 0 THEN mxg ELSE 0
    IN  [ixs1 |-> c.ixs1 - xshift, ixs2 |-> c.ixs2 - xshift,
         nx |-> c.nx - 2 * xshift,
         jys11 |-> c.jys11 + ybndry,
         jys21 |-> c.jys21 + ybndry,
         nyinner |-> c.nyinner + ybndry,
         jys12 |-> c.jys12 + ybndry + 2 * ybndry_upper,
         jys22 |-> c.jys22 + ybndry + 2 * ybndry_upper,
         ny |-> c.ny + 2 * ybndry + 2 * ybndry_upper,
         ybndry |-> ybndry, ybndry_upper |-> ybndry_upper]

\* a variant that takes the x-boundary cells off nx on one side only
AdjustedNxShiftOnce(md) ==
    LET c == Clamped(md)
        mxg == md.MXG
        myg == md.MYG
        ybndry == md.keep_yboundaries * myg
        ybndry_upper == IF md.jyseps2_1 = md.jyseps1_2 THEN 0 ELSE ybndry
        xshift == IF md.keep_xboundaries = 0 THEN mxg ELSE 0
    IN  [ixs1 |-> c.ixs1 - xshift, ixs2 |-> c.ixs2 - xshift,
         nx |-> c.nx - xshift,
         jys11 |-> c.jys11 + ybndry,
         jys21 |-> c.jys21 + ybndry,
         nyinner |-> c.nyinner + ybndry + ybndry_upper,
         jys12 |-> c.jys12 + ybndry + 2 * ybndry_upper,
         jys22 |-> c.jys22 + ybndry + 2 * ybndry_upper,
         ny |-> c.ny + 2 * ybndry + 2 * ybndry_upper,
         ybndry |-> ybndry, ybndry_upper |-> ybndry_upper]

\* "Adjust for boundary cells": the breakpoints used as region bounds
Adjusted(md) ==
    LET c == Clamped(md)
        mxg == md.MXG
        myg == md.MYG
        ybndry == md.keep_yboundaries * myg
        ybndry_upper == IF md.jyseps2_1 = md.jyseps1_2 THEN 0 ELSE ybndry
        xshift == IF md.keep_xboundaries = 0 THEN mxg ELSE 0
    IN  [ixs1 |-> c.ixs1 - xshift, ixs2 |-> c.ixs2 - xshift,
         nx |-> c.nx - 2 * xshift,
         jys11 |-> c.jys11 + ybndry,
         jys21 |-> c.jys21 + ybndry,
         nyinner |-> c.nyinner + ybndry + ybndry_upper,
         jys12 |-> c.jys12 + ybndry + 2 * ybndry_upper,
         jys22 |-> c.jys22 + ybndry + 2 * ybndry_upper,
         ny |-> c.ny + 2 * ybndry + 2 * ybndry_upper,
         ybndry |-> ybndry, ybndry_upper |-> ybndry_upper]

\* sizes of the global array (the dataset the regions are built for)
GlobalNx(md) == Adjusted(md).nx
GlobalNy(md) == Adjusted(md).ny

(***************************************************************************)
(* region.py: class Region                                                 *)
(***************************************************************************)
\* Region.__init__ (index part): a region with no connections
Region(name, xinner_ind, xouter_ind, ylower_ind, yupper_ind) ==
    [name |-> name,
     xinner_ind |-> xinner_ind, xouter_ind |-> xouter_ind,
     nx |-> xouter_ind - xinner_ind,
     ylower_ind |-> ylower_ind, yupper_ind |-> yupper_ind,
     ny |-> yupper_ind - ylower_ind,
     connection_inner_x |-> None, connection_outer_x |-> None,
     connection_lower_y |-> None, connection_upper_y |-> None]

\* an integer index i is valid for an axis of length n (negative wraps)
ValidIndex(i, n) == -n <= i /\ i < n

\* Region.__init__ (coordinate part): the integer indexing of dx and dy
\* succeeds; otherwise the constructor raises IndexError
RegionCoordsOK(r, gnx, gny) ==
    /\ ValidIndex(r.ylower_ind, gny)
    /\ ValidIndex(r.xinner_ind, gnx)
    /\ ValidIndex(r.xouter_ind - 1, gnx)
    /\ ValidIndex(r.yupper_ind - 1, gny)

(***************************************************************************)
(* region.py: _create_connection_x, _create_connection_y                   *)
(***************************************************************************)
\* a wiring that sets the two x links the wrong way round
CreateConnectionXSwapped(regs, inner, outer) ==
    LET r1 == [regs EXCEPT ![inner].connection_inner_x = outer]
    IN  [r1 EXCEPT ![outer].connection_outer_x = inner]

_create_connection_x(regs, inner, outer) ==
    LET r1 == [regs EXCEPT ![inner].connection_outer_x = outer]
    IN  [r1 EXCEPT ![outer].connection_inner_x = inner]

\* a wiring that sets the upper link and forgets the link back
CreateConnectionYOneWay(regs, lower, upper) ==
    [regs EXCEPT ![lower].connection_upper_y = upper]

_create_connection_y(regs, lower, upper) ==
    LET r1 == [regs EXCEPT ![lower].connection_upper_y = upper]
    IN  [r1 EXCEPT ![upper].connection_lower_y = lower]

\* the wiring calls of one topology, applied in program order
RECURSIVE Wire(_, _, _)
Wire(regs, calls, i) ==
    IF i > Len(calls) THEN regs
    ELSE LET c == calls[i]
             next == IF c[1] = "x"
                     THEN _create_connection_x(regs, c[2], c[3])
                     ELSE _create_connection_y(regs, c[2], c[3])
         IN  Wire(next, calls, i + 1)

\* the dictionary built by the assignments regions[key] = Region(name=...),
\* given as a sequence of <<key, name, xin, xout, ylow, yup>>
RECURSIVE RegionDictUpTo(_, _)
RegionDictUpTo(entries, n) ==
    IF n = 0 THEN << >>
    ELSE LET e == entries[n]
         IN  (e[1] :> Region(e[2], e[3], e[4], e[5], e[6]))
                 @@ RegionDictUpTo(entries, n - 1)

RegionDict(entries) == RegionDictUpTo(entries, Len(entries))

(***************************************************************************)
(* region.py: _create_regions_toroidal, the per-topology region sets       *)
(***************************************************************************)
\* topology == 'disconnected-double-null': the Region constructors, in program order
DisconnectedDoubleNullEntries(a) ==
    << <<"lower_inner_PFR", "lower_inner_PFR", 0, a.ixs1, 0, a.jys11 + 1>>,
       <<"lower_inner_intersep", "lower_inner_intersep", a.ixs1, a.ixs2, 0, a.jys11 + 1>>,
       <<"lower_inner_SOL", "lower_inner_SOL", a.ixs2, a.nx, 0, a.jys11 + 1>>,
       <<"inner_core", "inner_core", 0, a.ixs1, a.jys11 + 1, a.jys21 + 1>>,
       <<"inner_intersep", "inner_intersep", a.ixs1, a.ixs2, a.jys11 + 1, a.jys21 + 1>>,
       <<"inner_SOL", "inner_SOL", a.ixs2, a.nx, a.jys11 + 1, a.jys21 + 1>>,
       <<"upper_inner_PFR", "upper_inner_PFR", 0, a.ixs1, a.jys21 + 1, a.nyinner>>,
       <<"upper_inner_intersep", "upper_inner_intersep", a.ixs1, a.ixs2, a.jys21 + 1, a.nyinner>>,
       <<"upper_inner_SOL", "upper_inner_SOL", a.ixs2, a.nx, a.jys21 + 1, a.nyinner>>,
       <<"upper_outer_PFR", "upper_outer_PFR", 0, a.ixs1, a.nyinner, a.jys12 + 1>>,
       <<"upper_outer_intersep", "upper_outer_intersep", a.ixs1, a.ixs2, a.nyinner, a.jys12 + 1>>,
       <<"upper_outer_SOL", "upper_outer_SOL", a.ixs2, a.nx, a.nyinner, a.jys12 + 1>>,
       <<"outer_core", "outer_core", 0, a.ixs1, a.jys12 + 1, a.jys22 + 1>>,
       <<"outer_intersep", "outer_intersep", a.ixs1, a.ixs2, a.jys12 + 1, a.jys22 + 1>>,
       <<"outer_SOL", "outer_SOL", a.ixs2, a.nx, a.jys12 + 1, a.jys22 + 1>>,
       <<"lower_outer_PFR", "lower_outer_PFR", 0, a.ixs1, a.jys22 + 1, a.ny>>,
       <<"lower_outer_intersep", "lower_outer_intersep", a.ixs1, a.ixs2, a.jys22 + 1, a.ny>>,
       <<"lower_outer_SOL", "lower_outer_SOL", a.ixs2, a.nx, a.jys22 + 1, a.ny>> >>

\* a variant that leaves the inner and outer intersep bands unconnected in y
DisconnectedDoubleNullCallsBrokenChain ==
    << <<"x", "lower_inner_PFR", "lower_inner_intersep">>,
       <<"x", "lower_inner_intersep", "lower_inner_SOL">>,
       <<"x", "inner_core", "inner_intersep">>,
       <<"x", "inner_intersep", "inner_SOL">>,
       <<"x", "upper_inner_PFR", "upper_inner_intersep">>,
       <<"x", "upper_inner_intersep", "upper_inner_SOL">>,
       <<"x", "upper_outer_PFR", "upper_outer_intersep">>,
       <<"x", "upper_outer_intersep", "upper_outer_SOL">>,
       <<"x", "outer_core", "outer_intersep">>,
       <<"x", "outer_intersep", "outer_SOL">>,
       <<"x", "lower_outer_PFR", "lower_outer_intersep">>,
       <<"x", "lower_outer_intersep", "lower_outer_SOL">>,
       <<"y", "lower_inner_PFR", "lower_outer_PFR">>,
       <<"y", "lower_inner_intersep", "inner_intersep">>,
       <<"y", "lower_inner_SOL", "inner_SOL">>,
       <<"y", "inner_core", "outer_core">>,
       <<"y", "outer_core", "inner_core">>,
       <<"y", "inner_SOL", "upper_inner_SOL">>,
       <<"y", "upper_outer_intersep", "upper_inner_intersep">>,
       <<"y", "upper_outer_PFR", "upper_inner_PFR">>,
       <<"y", "upper_outer_SOL", "outer_SOL">>,
       <<"y", "outer_intersep", "lower_outer_intersep">>,
       <<"y", "outer_SOL", "lower_outer_SOL">> >>

\* topology == 'disconnected-double-null': the _create_connection_x/_y calls, in program order
DisconnectedDoubleNullCalls ==
    << <<"x", "lower_inner_PFR", "lower_inner_intersep">>,
       <<"x", "lower_inner_intersep", "lower_inner_SOL">>,
       <<"x", "inner_core", "inner_intersep">>,
       <<"x", "inner_intersep", "inner_SOL">>,
       <<"x", "upper_inner_PFR", "upper_inner_intersep">>,
       <<"x", "upper_inner_intersep", "upper_inner_SOL">>,
       <<"x", "upper_outer_PFR", "upper_outer_intersep">>,
       <<"x", "upper_outer_intersep", "upper_outer_SOL">>,
       <<"x", "outer_core", "outer_intersep">>,
       <<"x", "outer_intersep", "outer_SOL">>,
       <<"x", "lower_outer_PFR", "lower_outer_intersep">>,
       <<"x", "lower_outer_intersep", "lower_outer_SOL">>,
       <<"y", "lower_inner_PFR", "lower_outer_PFR">>,
       <<"y", "lower_inner_intersep", "inner_intersep">>,
       <<"y", "lower_inner_SOL", "inner_SOL">>,
       <<"y", "inner_core", "outer_core">>,
       <<"y", "outer_core", "inner_core">>,
       <<"y", "inner_intersep", "outer_intersep">>,
       <<"y", "inner_SOL", "upper_inner_SOL">>,
       <<"y", "upper_outer_intersep", "upper_inner_intersep">>,
       <<"y", "upper_outer_PFR", "upper_inner_PFR">>,
       <<"y", "upper_outer_SOL", "outer_SOL">>,
       <<"y", "outer_intersep", "lower_outer_intersep">>,
       <<"y", "outer_SOL", "lower_outer_SOL">> >>

\* topology == 'connected-double-null': the Region constructors, in program order
ConnectedDoubleNullEntries(a) ==
    << <<"lower_inner_PFR", "lower_inner_PFR", 0, a.ixs1, 0, a.jys11 + 1>>,
       <<"lower_inner_SOL", "lower_inner_SOL", a.ixs2, a.nx, 0, a.jys11 + 1>>,
       <<"inner_core", "inner_core", 0, a.ixs1, a.jys11 + 1, a.jys21 + 1>>,
       <<"inner_SOL", "inner_SOL", a.ixs2, a.nx, a.jys11 + 1, a.jys21 + 1>>,
       <<"upper_inner_PFR", "upper_inner_PFR", 0, a.ixs1, a.jys21 + 1, a.nyinner>>,
       <<"upper_inner_SOL", "upper_inner_SOL", a.ixs2, a.nx, a.jys21 + 1, a.nyinner>>,
       <<"upper_outer_PFR", "upper_outer_PFR", 0, a.ixs1, a.nyinner, a.jys12 + 1>>,
       <<"upper_outer_SOL", "upper_outer_SOL", a.ixs2, a.nx, a.nyinner, a.jys12 + 1>>,
       <<"outer_core", "outer_core", 0, a.ixs1, a.jys12 + 1, a.jys22 + 1>>,
       <<"outer_SOL", "outer_SOL", a.ixs2, a.nx, a.jys12 + 1, a.jys22 + 1>>,
       <<"lower_outer_PFR", "lower_outer_PFR", 0, a.ixs1, a.jys22 + 1, a.ny>>,
       <<"lower_outer_SOL", "lower_outer_SOL", a.ixs2, a.nx, a.jys22 + 1, a.ny>> >>

\* a variant that joins the core halves in one direction only
ConnectedDoubleNullCallsHalfCore ==
    << <<"x", "lower_inner_PFR", "lower_inner_SOL">>,
       <<"x", "inner_core", "inner_SOL">>,
       <<"x", "upper_inner_PFR", "upper_inner_SOL">>,
       <<"x", "upper_outer_PFR", "upper_outer_SOL">>,
       <<"x", "outer_core", "outer_SOL">>,
       <<"x", "lower_outer_PFR", "lower_outer_SOL">>,
       <<"y", "lower_inner_PFR", "lower_outer_PFR">>,
       <<"y", "lower_inner_SOL", "inner_SOL">>,
       <<"y", "inner_core", "outer_core">>,
       <<"y", "inner_SOL", "upper_inner_SOL">>,
       <<"y", "upper_outer_PFR", "upper_inner_PFR">>,
       <<"y", "upper_outer_SOL", "outer_SOL">>,
       <<"y", "outer_SOL", "lower_outer_SOL">> >>

\* topology == 'connected-double-null': the _create_connection_x/_y calls, in program order
ConnectedDoubleNullCalls ==
    << <<"x", "lower_inner_PFR", "lower_inner_SOL">>,
       <<"x", "inner_core", "inner_SOL">>,
       <<"x", "upper_inner_PFR", "upper_inner_SOL">>,
       <<"x", "upper_outer_PFR", "upper_outer_SOL">>,
       <<"x", "outer_core", "outer_SOL">>,
       <<"x", "lower_outer_PFR", "lower_outer_SOL">>,
       <<"y", "lower_inner_PFR", "lower_outer_PFR">>,
       <<"y", "lower_inner_SOL", "inner_SOL">>,
       <<"y", "inner_core", "outer_core">>,
       <<"y", "outer_core", "inner_core">>,
       <<"y", "inner_SOL", "upper_inner_SOL">>,
       <<"y", "upper_outer_PFR", "upper_inner_PFR">>,
       <<"y", "upper_outer_SOL", "outer_SOL">>,
       <<"y", "outer_SOL", "lower_outer_SOL">> >>

\* topology == 'single-null': the Region constructors, in program order
SingleNullEntries(a) ==
    << <<"inner_PFR", "inner_PFR", 0, a.ixs1, 0, a.jys11 + 1>>,
       <<"inner_SOL", "inner_SOL", a.ixs1, a.nx, 0, a.jys11 + 1>>,
       <<"core", "core", 0, a.ixs1, a.jys11 + 1, a.jys22 + 1>>,
       <<"SOL", "SOL", a.ixs1, a.nx, a.jys11 + 1, a.jys22 + 1>>,
       <<"outer_PFR", "lower_PFR", 0, a.ixs1, a.jys22 + 1, a.ny>>,
       <<"outer_SOL", "lower_SOL", a.ixs1, a.nx, a.jys22 + 1, a.ny>> >>

\* a variant that does not close the core on itself
SingleNullCallsOpenCore ==
    << <<"x", "inner_PFR", "inner_SOL">>,
       <<"x", "core", "SOL">>,
       <<"x", "outer_PFR", "outer_SOL">>,
       <<"y", "inner_PFR", "outer_PFR">>,
       <<"y", "inner_SOL", "SOL">>,
       <<"y", "SOL", "outer_SOL">> >>

\* a variant that joins the inner PFR leg to the outer SOL leg
SingleNullCallsCrossedLegs ==
    << <<"x", "inner_PFR", "inner_SOL">>,
       <<"x", "core", "SOL">>,
       <<"x", "outer_PFR", "outer_SOL">>,
       <<"y", "inner_PFR", "outer_SOL">>,
       <<"y", "inner_SOL", "SOL">>,
       <<"y", "core", "core">>,
       <<"y", "SOL", "outer_SOL">> >>

\* topology == 'single-null': the _create_connection_x/_y calls, in program order
SingleNullCalls ==
    << <<"x", "inner_PFR", "inner_SOL">>,
       <<"x", "core", "SOL">>,
       <<"x", "outer_PFR", "outer_SOL">>,
       <<"y", "inner_PFR", "outer_PFR">>,
       <<"y", "inner_SOL", "SOL">>,
       <<"y", "core", "core">>,
       <<"y", "SOL", "outer_SOL">> >>

\* topology == 'limiter': the Region constructors, in program order
LimiterEntries(a) ==
    << <<"core", "core", 0, a.ixs1, a.ybndry, a.ny - a.ybndry>>,
       <<"SOL", "SOL", a.ixs1, a.nx, 0, a.ny>> >>

\* a variant without the x-connection of core and SOL
LimiterCallsNoX ==
    << <<"y", "core", "core">> >>

\* topology == 'limiter': the _create_connection_x/_y calls, in program order
LimiterCalls ==
    << <<"x", "core", "SOL">>,
       <<"y", "core", "core">> >>

\* topology == 'core': the Region constructors, in program order
CoreEntries(a) ==
    << <<"core", "core", 0, a.nx, a.ybndry, a.ny - a.ybndry>> >>

\* topology == 'core': the _create_connection_x/_y calls, in program order
CoreCalls ==
    << <<"y", "core", "core">> >>

\* topology == 'sol': the Region constructors, in program order
SolEntries(a) ==
    << <<"SOL", "SOL", 0, a.nx, 0, a.ny>> >>

\* topology == 'sol': the _create_connection_x/_y calls, in program order
SolCalls ==
    <<  >>

\* topology == 'xpoint': the Region constructors, in program order
XpointEntries(a) ==
    << <<"lower_inner_PFR", "lower_inner_PFR", 0, a.ixs1, 0, a.jys11 + 1>>,
       <<"lower_inner_SOL", "lower_inner_SOL", a.ixs1, a.nx, 0, a.jys11 + 1>>,
       <<"upper_inner_PFR", "upper_inner_PFR", 0, a.ixs1, a.jys11 + 1, a.nyinner>>,
       <<"upper_inner_SOL", "upper_inner_SOL", a.ixs1, a.nx, a.jys11 + 1, a.nyinner>>,
       <<"upper_outer_PFR", "upper_outer_PFR", 0, a.ixs1, a.nyinner, a.jys22 + 1>>,
       <<"upper_outer_SOL", "upper_outer_SOL", a.ixs1, a.nx, a.nyinner, a.jys22 + 1>>,
       <<"lower_outer_PFR", "lower_outer_PFR", 0, a.ixs1, a.jys22 + 1, a.ny>>,
       <<"lower_outer_SOL", "lower_outer_SOL", a.ixs1, a.nx, a.jys22 + 1, a.ny>> >>

\* a variant that joins the upper legs the other way round
XpointCallsUpperReversed ==
    << <<"x", "lower_inner_PFR", "lower_inner_SOL">>,
       <<"x", "upper_inner_PFR", "upper_inner_SOL">>,
       <<"x", "upper_outer_PFR", "upper_outer_SOL">>,
       <<"x", "lower_outer_PFR", "lower_outer_SOL">>,
       <<"y", "lower_inner_PFR", "lower_outer_PFR">>,
       <<"y", "lower_inner_SOL", "upper_inner_SOL">>,
       <<"y", "upper_inner_PFR", "upper_outer_PFR">>,
       <<"y", "upper_outer_SOL", "lower_outer_SOL">> >>

\* topology == 'xpoint': the _create_connection_x/_y calls, in program order
XpointCalls ==
    << <<"x", "lower_inner_PFR", "lower_inner_SOL">>,
       <<"x", "upper_inner_PFR", "upper_inner_SOL">>,
       <<"x", "upper_outer_PFR", "upper_outer_SOL">>,
       <<"x", "lower_outer_PFR", "lower_outer_SOL">>,
       <<"y", "lower_inner_PFR", "lower_outer_PFR">>,
       <<"y", "lower_inner_SOL", "upper_inner_SOL">>,
       <<"y", "upper_outer_PFR", "upper_inner_PFR">>,
       <<"y", "upper_outer_SOL", "lower_outer_SOL">> >>

\* the branch of the if/elif chain taken for a topology tag
TopologyEntries(tag, a) ==
    IF tag = "disconnected-double-null" THEN DisconnectedDoubleNullEntries(a)
    ELSE IF tag = "connected-double-null" THEN ConnectedDoubleNullEntries(a)
    ELSE IF tag = "single-null" THEN SingleNullEntries(a)
    ELSE IF tag = "limiter" THEN LimiterEntries(a)
    ELSE IF tag = "core" THEN CoreEntries(a)
    ELSE IF tag = "sol" THEN SolEntries(a)
    ELSE XpointEntries(a)

TopologyCalls(tag) ==
    IF tag = "disconnected-double-null" THEN DisconnectedDoubleNullCalls
    ELSE IF tag = "connected-double-null" THEN ConnectedDoubleNullCalls
    ELSE IF tag = "single-null" THEN SingleNullCalls
    ELSE IF tag = "limiter" THEN LimiterCalls
    ELSE IF tag = "core" THEN CoreCalls
    ELSE IF tag = "sol" THEN SolCalls
    ELSE XpointCalls

\* the regions of a topology tag: constructors, then wiring
BuildRegions(tag, md) ==
    Wire(RegionDict(TopologyEntries(tag, Adjusted(md))), TopologyCalls(tag), 1)

\* _create_regions_toroidal as a whole: the outcome is the registry, or the
\* exception that leaves the function
\*   ValueError          from _get_topology
\*   NotImplementedError from the final else of the if/elif chain
\*   IndexError          from a Region constructor indexing dx, dy
_create_regions_toroidal(md) ==
    LET tag == _get_topology(md)
        regs == BuildRegions(tag, md)
    IN  IF tag = "ValueError"
        THEN [err |-> "ValueError", topology |-> None, regions |-> << >>]
        ELSE IF tag \notin Topologies
        THEN [err |-> "NotImplementedError", topology |-> tag,
              regions |-> << >>]
        ELSE IF \E k \in DOMAIN regs :
                    ~RegionCoordsOK(regs[k], GlobalNx(md), GlobalNy(md))
        THEN [err |-> "IndexError", topology |-> tag, regions |-> << >>]
        ELSE [err |-> None, topology |-> tag, regions |-> regs]

(***************************************************************************)
(* region.py: Region.get_slices and the four get_*_guards_slices.  A slice *)
(* is the pair <<start, stop>> handed to isel.                             *)
(***************************************************************************)
get_slices(r, mxg, myg) ==
    LET xi0 == r.xinner_ind
        xi1 == IF r.connection_inner_x # None THEN xi0 - mxg ELSE xi0
        xo == r.xouter_ind
        \* the outer-x branch adds to xi, as the source does
        xi == IF r.connection_outer_x # None THEN xi1 + mxg ELSE xi1
        yl == IF r.connection_lower_y # None
              THEN r.ylower_ind - myg ELSE r.ylower_ind
        yu == IF r.connection_upper_y # None
              THEN r.yupper_ind + myg ELSE r.yupper_ind
    IN  [x |-> <<xi, xo>>, y |-> <<yl, yu>>]

\* a variant that extends the y range whether or not the edges are connected
GuardsYRangeAlways(r, myg) ==
    << r.ylower_ind - myg, r.yupper_ind + myg >>

\* the y range shared by get_inner_guards_slices and get_outer_guards_slices
GuardsYRange(r, myg) ==
    << IF r.connection_lower_y # None
       THEN r.ylower_ind - myg ELSE r.ylower_ind,
       IF r.connection_upper_y # None
       THEN r.yupper_ind + myg ELSE r.yupper_ind >>

\* the x range shared by get_lower_guards_slices and get_upper_guards_slices
GuardsXRange(r, mxg) ==
    << IF r.connection_inner_x # None
       THEN r.xinner_ind - mxg ELSE r.xinner_ind,
       IF r.connection_outer_x # None
       THEN r.xouter_ind + mxg ELSE r.xouter_ind >>

get_inner_guards_slices(r, mxg, myg) ==
    [x |-> <<r.xinner_ind - mxg, r.xinner_ind>>, y |-> GuardsYRange(r, myg)]

get_outer_guards_slices(r, mxg, myg) ==
    [x |-> <<r.xouter_ind, r.xouter_ind + mxg>>, y |-> GuardsYRange(r, myg)]

get_lower_guards_slices(r, myg, mxg) ==
    [x |-> GuardsXRange(r, mxg), y |-> <<r.ylower_ind - myg, r.ylower_ind>>]

get_upper_guards_slices(r, myg, mxg) ==
    [x |-> GuardsXRange(r, mxg), y |-> <<r.yupper_ind, r.yupper_ind + myg>>]

(***************************************************************************)
(* The labelled arrays the stitchers work on.                              *)
(*                                                                         *)
(* The global array holds a distinct value in every cell: the value of the *)
(* cell at global indices (gx, gy) is the pair <<gx, gy>>, so two arrays   *)
(* are equal value for value exactly when they hold the same global cells. *)
(* The x and y coordinates of the global array are the global indices.     *)
(* An array is [ok, w, h, at, xc, yc, region]: at[i, j] for i in 1..w and  *)
(* j in 1..h, xc and yc the coordinate labels (empty when the array        *)
(* carries no coordinates), region the key of its region annotation.  A    *)
(* raised exception is [ok |-> FALSE, err |-> ...].                        *)
(***************************************************************************)
Raise(e) == [ok |-> FALSE, err |-> e]

\* F applied to the value of v: v is computed once, as an assignment does
Bind(v, F(_)) == CHOOSE r \in { F(x) : x \in {v} } : TRUE

\* Python's slice(start, stop) on an axis of length n: the half-open range
\* of 0-based positions <<s, e>> it selects (negative indices count from
\* the end, everything is clipped to the axis)
PyIndex(i, n) == IF i < 0 THEN Max(i + n, 0) ELSE Min(i, n)

PySlice(start, stop, n) ==
    LET s == PyIndex(start, n)
        e == PyIndex(stop, n)
    IN  <<s, Max(s, e)>>

\* slice(start, None) and slice(None, stop) == slice(stop)
PySliceFrom(start, n) == <<PyIndex(start, n), n>>
PySliceTo(stop, n) == <<0, PyIndex(stop, n)>>

\* da_global.isel(x=slice(xs[1], xs[2]), y=slice(ys[1], ys[2]))
GlobalIsel(md, hc, xs, ys, key) ==
    Bind(<<PySlice(xs[1], xs[2], GlobalNx(md)),
           PySlice(ys[1], ys[2], GlobalNy(md))>>, LAMBDA p :
    LET x0 == p[1][1]
        y0 == p[2][1]
        w == p[1][2] - x0
        h == p[2][2] - y0
    IN  [ok |-> TRUE, w |-> w, h |-> h,
         at |-> [i \in 1..w, j \in 1..h |-> <<x0 + i - 1, y0 + j - 1>>],
         xc |-> IF hc THEN [i \in 1..w |-> x0 + i - 1] ELSE << >>,
         yc |-> IF hc THEN [j \in 1..h |-> y0 + j - 1] ELSE << >>,
         region |-> key])

\* da_global[xcoord].isel(x=slice(...)): the coordinate labels of a slice
GlobalCoord(n, sl) ==
    Bind(PySlice(sl[1], sl[2], n), LAMBDA p :
         [i \in 1..(p[2] - p[1]) |-> p[1] + i - 1])

\* da.isel(x=slice) with the normalised 0-based range <<s, e>>
IselX(da, range) ==
    Bind(range, LAMBDA p :
    [da EXCEPT !.w = p[2] - p[1],
               !.at = [i \in 1..(p[2] - p[1]), j \in 1..da.h |->
                          da.at[p[1] + i, j]],
               !.xc = IF da.xc = << >> THEN << >>
                      ELSE [i \in 1..(p[2] - p[1]) |-> da.xc[p[1] + i]]])

IselY(da, range) ==
    Bind(range, LAMBDA p :
    [da EXCEPT !.h = p[2] - p[1],
               !.at = [i \in 1..da.w, j \in 1..(p[2] - p[1]) |->
                          da.at[i, p[1] + j]],
               !.yc = IF da.yc = << >> THEN << >>
                      ELSE [j \in 1..(p[2] - p[1]) |-> da.yc[p[1] + j]]])

\* da.assign_coords(x=new_xcoord, y=new_ycoord): fails on a length mismatch
AssignCoords(da, new_xcoord, new_ycoord) ==
    Bind(<<new_xcoord, new_ycoord>>, LAMBDA c :
    IF Len(c[1]) # da.w \/ Len(c[2]) # da.h
    THEN Raise("ValueError")
    ELSE [da EXCEPT !.xc = c[1], !.yc = c[2]])

\* xr.concat((a, b), xcoord, join='exact'): the y axes must agree in length
\* and, when labelled, in labels; the attributes are those of a
ConcatX(a, b) ==
    IF a.h # b.h \/ a.yc # b.yc
    THEN Raise("ValueError")
    ELSE [ok |-> TRUE, w |-> a.w + b.w, h |-> a.h,
          at |-> [i \in 1..(a.w + b.w), j \in 1..a.h |->
                    IF i <= a.w THEN a.at[i, j] ELSE b.at[i - a.w, j]],
          xc |-> a.xc \o b.xc, yc |-> a.yc, region |-> a.region]

\* xr.concat((a, b), ycoord, join='exact')
ConcatY(a, b) ==
    IF a.w # b.w \/ a.xc # b.xc
    THEN Raise("ValueError")
    ELSE [ok |-> TRUE, w |-> a.w, h |-> a.h + b.h,
          at |-> [i \in 1..a.w, j \in 1..(a.h + b.h) |->
                    IF j <= a.h THEN a.at[i, j] ELSE b.at[i, j - a.h]],
          xc |-> a.xc, yc |-> a.yc \o b.yc, region |-> a.region]

\* a variant that leaves the annotation as the concat made it
SetRegionKeep(da, key) == da

\* da.attrs['region'] = save_region, when the concat succeeded
SetRegion(da, key) ==
    Bind(da, LAMBDA d : IF d.ok THEN [d EXCEPT !.region = key] ELSE d)

(***************************************************************************)
(* region.py: the four guard-cell stitchers, and the extraction            *)
(* from_region(name, with_guards) they fetch neighbours with               *)
(***************************************************************************)
RECURSIVE from_region(_, _, _, _, _, _)

\* a variant that looks up the neighbour before it tests the width
ConcatInnerGuardsFetchFirst(da, regs, md, hc, mxg) ==
    LET myg_da == md.MYG
        fix == myg_da > 0 /\ md.keep_yboundaries # 0
        A == regs[da.region]
        gslices == get_inner_guards_slices(A, mxg, 0)
    IN  IF A.connection_inner_x \notin DOMAIN regs THEN Raise("KeyError")
        ELSE IF mxg <= 0 THEN da
        ELSE
        Bind(from_region(regs, md, hc, A.connection_inner_x, 0, 0), LAMBDA d0 :
        \* da_inner has an actual boundary where da has a connection
        Bind(IF fix /\ A.connection_lower_y # None
                /\ regs[d0.region].connection_lower_y = None
             THEN IselY(d0, PySliceFrom(myg_da, d0.h)) ELSE d0, LAMBDA d1 :
        Bind(IF fix /\ A.connection_upper_y # None
                /\ regs[d1.region].connection_upper_y = None
             THEN IselY(d1, PySliceTo(-myg_da, d1.h)) ELSE d1, LAMBDA d2 :
        \* isel(x=slice(-mxg, None))
        Bind(IselX(d2, PySliceFrom(-mxg, d2.w)), LAMBDA d3 :
        \* da_inner has a connection where da has an actual boundary
        Bind(IF fix /\ A.connection_lower_y = None
                /\ regs[d3.region].connection_lower_y # None
             THEN Bind(from_region(regs, md, hc,
                           regs[d3.region].connection_lower_y, 0, 0), LAMBDA l0 :
                  Bind(IselX(l0, PySliceFrom(-mxg, l0.w)), LAMBDA l1 :
                  Bind(IselY(l1, PySliceFrom(-myg_da, l1.h)), LAMBDA l2 :
                  SetRegion(ConcatY(l2, d3), d3.region))))
             ELSE d3, LAMBDA d4 :
        Bind(IF ~d4.ok THEN d4
             ELSE IF fix /\ A.connection_upper_y = None
                     /\ regs[d4.region].connection_upper_y # None
             THEN Bind(from_region(regs, md, hc,
                           regs[d4.region].connection_upper_y, 0, 0), LAMBDA u0 :
                  Bind(IselX(u0, PySliceFrom(-mxg, u0.w)), LAMBDA u1 :
                  Bind(IselY(u1, PySliceTo(myg_da, u1.h)), LAMBDA u2 :
                  ConcatY(d4, u2))))
             ELSE d4, LAMBDA d5 :
        Bind(IF ~d5.ok THEN d5
             ELSE IF hc
             THEN AssignCoords(d5, GlobalCoord(GlobalNx(md), gslices.x),
                               GlobalCoord(GlobalNy(md), gslices.y))
             ELSE d5, LAMBDA d6 :
        IF ~d6.ok THEN d6 ELSE SetRegion(ConcatX(d6, da), da.region))))))))

\* a variant that fills missing lower boundary rows from the far edge of the
\* neighbour's y-neighbour
ConcatInnerGuardsFarEdge(da, regs, md, hc, mxg) ==
    LET myg_da == md.MYG
        fix == myg_da > 0 /\ md.keep_yboundaries # 0
        A == regs[da.region]
        gslices == get_inner_guards_slices(A, mxg, 0)
    IN  IF mxg <= 0 THEN da
        ELSE IF A.connection_inner_x \notin DOMAIN regs THEN Raise("KeyError")
        ELSE
        Bind(from_region(regs, md, hc, A.connection_inner_x, 0, 0), LAMBDA d0 :
        \* da_inner has an actual boundary where da has a connection
        Bind(IF fix /\ A.connection_lower_y # None
                /\ regs[d0.region].connection_lower_y = None
             THEN IselY(d0, PySliceFrom(myg_da, d0.h)) ELSE d0, LAMBDA d1 :
        Bind(IF fix /\ A.connection_upper_y # None
                /\ regs[d1.region].connection_upper_y = None
             THEN IselY(d1, PySliceTo(-myg_da, d1.h)) ELSE d1, LAMBDA d2 :
        \* isel(x=slice(-mxg, None))
        Bind(IselX(d2, PySliceFrom(-mxg, d2.w)), LAMBDA d3 :
        \* da_inner has a connection where da has an actual boundary
        Bind(IF fix /\ A.connection_lower_y = None
                /\ regs[d3.region].connection_lower_y # None
             THEN Bind(from_region(regs, md, hc,
                           regs[d3.region].connection_lower_y, 0, 0), LAMBDA l0 :
                  Bind(IselX(l0, PySliceFrom(-mxg, l0.w)), LAMBDA l1 :
                  Bind(IselY(l1, PySliceTo(myg_da, l1.h)), LAMBDA l2 :
                  SetRegion(ConcatY(l2, d3), d3.region))))
             ELSE d3, LAMBDA d4 :
        Bind(IF ~d4.ok THEN d4
             ELSE IF fix /\ A.connection_upper_y = None
                     /\ regs[d4.region].connection_upper_y # None
             THEN Bind(from_region(regs, md, hc,
                           regs[d4.region].connection_upper_y, 0, 0), LAMBDA u0 :
                  Bind(IselX(u0, PySliceFrom(-mxg, u0.w)), LAMBDA u1 :
                  Bind(IselY(u1, PySliceTo(myg_da, u1.h)), LAMBDA u2 :
                  ConcatY(d4, u2))))
             ELSE d4, LAMBDA d5 :
        Bind(IF ~d5.ok THEN d5
             ELSE IF hc
             THEN AssignCoords(d5, GlobalCoord(GlobalNx(md), gslices.x),
                               GlobalCoord(GlobalNy(md), gslices.y))
             ELSE d5, LAMBDA d6 :
        IF ~d6.ok THEN d6 ELSE SetRegion(ConcatX(d6, da), da.region))))))))

\* region.py: _concat_inner_guards(da, da_global, mxg); the global array is
\* given by the registry regs, the metadata md and hc (the arrays carry
\* coordinates)
_concat_inner_guards(da, regs, md, hc, mxg) ==
    LET myg_da == md.MYG
        fix == myg_da > 0 /\ md.keep_yboundaries # 0
        A == regs[da.region]
        gslices == get_inner_guards_slices(A, mxg, 0)
    IN  IF mxg <= 0 THEN da
        ELSE IF A.connection_inner_x \notin DOMAIN regs THEN Raise("KeyError")
        ELSE
        Bind(from_region(regs, md, hc, A.connection_inner_x, 0, 0), LAMBDA d0 :
        \* da_inner has an actual boundary where da has a connection
        Bind(IF fix /\ A.connection_lower_y # None
                /\ regs[d0.region].connection_lower_y = None
             THEN IselY(d0, PySliceFrom(myg_da, d0.h)) ELSE d0, LAMBDA d1 :
        Bind(IF fix /\ A.connection_upper_y # None
                /\ regs[d1.region].connection_upper_y = None
             THEN IselY(d1, PySliceTo(-myg_da, d1.h)) ELSE d1, LAMBDA d2 :
        \* isel(x=slice(-mxg, None))
        Bind(IselX(d2, PySliceFrom(-mxg, d2.w)), LAMBDA d3 :
        \* da_inner has a connection where da has an actual boundary
        Bind(IF fix /\ A.connection_lower_y = None
                /\ regs[d3.region].connection_lower_y # None
             THEN Bind(from_region(regs, md, hc,
                           regs[d3.region].connection_lower_y, 0, 0), LAMBDA l0 :
                  Bind(IselX(l0, PySliceFrom(-mxg, l0.w)), LAMBDA l1 :
                  Bind(IselY(l1, PySliceFrom(-myg_da, l1.h)), LAMBDA l2 :
                  SetRegion(ConcatY(l2, d3), d3.region))))
             ELSE d3, LAMBDA d4 :
        Bind(IF ~d4.ok THEN d4
             ELSE IF fix /\ A.connection_upper_y = None
                     /\ regs[d4.region].connection_upper_y # None
             THEN Bind(from_region(regs, md, hc,
                           regs[d4.region].connection_upper_y, 0, 0), LAMBDA u0 :
                  Bind(IselX(u0, PySliceFrom(-mxg, u0.w)), LAMBDA u1 :
                  Bind(IselY(u1, PySliceTo(myg_da, u1.h)), LAMBDA u2 :
                  ConcatY(d4, u2))))
             ELSE d4, LAMBDA d5 :
        Bind(IF ~d5.ok THEN d5
             ELSE IF hc
             THEN AssignCoords(d5, GlobalCoord(GlobalNx(md), gslices.x),
                               GlobalCoord(GlobalNy(md), gslices.y))
             ELSE d5, LAMBDA d6 :
        IF ~d6.ok THEN d6 ELSE SetRegion(ConcatX(d6, da), da.region))))))))

\* region.py: _concat_outer_guards(da, da_global, mxg); the global array is
\* given by the registry regs, the metadata md and hc (the arrays carry
\* coordinates)
_concat_outer_guards(da, regs, md, hc, mxg) ==
    LET myg_da == md.MYG
        fix == myg_da > 0 /\ md.keep_yboundaries # 0
        A == regs[da.region]
        gslices == get_outer_guards_slices(A, mxg, 0)
    IN  IF mxg <= 0 THEN da
        ELSE IF A.connection_outer_x \notin DOMAIN regs THEN Raise("KeyError")
        ELSE
        Bind(from_region(regs, md, hc, A.connection_outer_x, 0, 0), LAMBDA d0 :
        \* da_outer has an actual boundary where da has a connection
        Bind(IF fix /\ A.connection_lower_y # None
                /\ regs[d0.region].connection_lower_y = None
             THEN IselY(d0, PySliceFrom(myg_da, d0.h)) ELSE d0, LAMBDA d1 :
        Bind(IF fix /\ A.connection_upper_y # None
                /\ regs[d1.region].connection_upper_y = None
             THEN IselY(d1, PySliceTo(-myg_da, d1.h)) ELSE d1, LAMBDA d2 :
        \* isel(x=slice(mxg))
        Bind(IselX(d2, PySliceTo(mxg, d2.w)), LAMBDA d3 :
        \* da_outer has a connection where da has an actual boundary
        Bind(IF fix /\ A.connection_lower_y = None
                /\ regs[d3.region].connection_lower_y # None
             THEN Bind(from_region(regs, md, hc,
                           regs[d3.region].connection_lower_y, 0, 0), LAMBDA l0 :
                  Bind(IselX(l0, PySliceFrom(-mxg, l0.w)), LAMBDA l1 :
                  Bind(IselY(l1, PySliceFrom(-myg_da, l1.h)), LAMBDA l2 :
                  SetRegion(ConcatY(l2, d3), d3.region))))
             ELSE d3, LAMBDA d4 :
        Bind(IF ~d4.ok THEN d4
             ELSE IF fix /\ A.connection_upper_y = None
                     /\ regs[d4.region].connection_upper_y # None
             THEN Bind(from_region(regs, md, hc,
                           regs[d4.region].connection_upper_y, 0, 0), LAMBDA u0 :
                  Bind(IselX(u0, PySliceFrom(-mxg, u0.w)), LAMBDA u1 :
                  Bind(IselY(u1, PySliceTo(myg_da, u1.h)), LAMBDA u2 :
                  ConcatY(d4, u2))))
             ELSE d4, LAMBDA d5 :
        Bind(IF ~d5.ok THEN d5
             ELSE IF hc
             THEN AssignCoords(d5, GlobalCoord(GlobalNx(md), gslices.x),
                               GlobalCoord(GlobalNy(md), gslices.y))
             ELSE d5, LAMBDA d6 :
        IF ~d6.ok THEN d6 ELSE SetRegion(ConcatX(da, d6), da.region))))))))

\* a variant that takes the neighbour's first myg rows instead of its last
ConcatLowerGuardsFirstRows(da, regs, md, hc, mxg, myg) ==
    LET A == regs[da.region]
        gslices == get_lower_guards_slices(A, myg, mxg)
    IN  IF myg <= 0 THEN da
        ELSE IF A.connection_lower_y \notin DOMAIN regs THEN Raise("KeyError")
        ELSE
        Bind(from_region(regs, md, hc, A.connection_lower_y, mxg, 0), LAMBDA d0 :
        Bind(IF ~d0.ok THEN d0 ELSE IselY(d0, PySliceTo(myg, d0.h)), LAMBDA d1 :
        Bind(IF ~d1.ok THEN d1
             ELSE IF hc
             THEN IF gslices.y[1] < 0
                  THEN Raise("ValueError")
                  ELSE AssignCoords(d1, GlobalCoord(GlobalNx(md), gslices.x),
                                    GlobalCoord(GlobalNy(md), gslices.y))
             ELSE d1, LAMBDA d2 :
        IF ~d2.ok THEN d2 ELSE SetRegion(ConcatY(d2, da), da.region))))

\* a variant that keeps the communicated coordinates: no check of the guard
\* slice against the global array, no assign_coords
ConcatLowerGuardsKeepCoords(da, regs, md, hc, mxg, myg) ==
    LET A == regs[da.region]
        gslices == get_lower_guards_slices(A, myg, mxg)
    IN  IF myg <= 0 THEN da
        ELSE IF A.connection_lower_y \notin DOMAIN regs THEN Raise("KeyError")
        ELSE
        Bind(from_region(regs, md, hc, A.connection_lower_y, mxg, 0), LAMBDA d0 :
        Bind(IF ~d0.ok THEN d0 ELSE IselY(d0, PySliceFrom(-myg, d0.h)), LAMBDA d1 :
        Bind(IF ~d1.ok THEN d1
             ELSE IF FALSE
             THEN IF gslices.y[1] < 0
                  THEN Raise("ValueError")
                  ELSE AssignCoords(d1, GlobalCoord(GlobalNx(md), gslices.x),
                                    GlobalCoord(GlobalNy(md), gslices.y))
             ELSE d1, LAMBDA d2 :
        IF ~d2.ok THEN d2 ELSE SetRegion(ConcatY(d2, da), da.region))))

\* region.py: _concat_lower_guards(da, da_global, mxg, myg)
_concat_lower_guards(da, regs, md, hc, mxg, myg) ==
    LET A == regs[da.region]
        gslices == get_lower_guards_slices(A, myg, mxg)
    IN  IF myg <= 0 THEN da
        ELSE IF A.connection_lower_y \notin DOMAIN regs THEN Raise("KeyError")
        ELSE
        Bind(from_region(regs, md, hc, A.connection_lower_y, mxg, 0), LAMBDA d0 :
        Bind(IF ~d0.ok THEN d0 ELSE IselY(d0, PySliceFrom(-myg, d0.h)), LAMBDA d1 :
        Bind(IF ~d1.ok THEN d1
             ELSE IF hc
             THEN IF gslices.y[1] < 0
                  THEN Raise("ValueError")
                  ELSE AssignCoords(d1, GlobalCoord(GlobalNx(md), gslices.x),
                                    GlobalCoord(GlobalNy(md), gslices.y))
             ELSE d1, LAMBDA d2 :
        IF ~d2.ok THEN d2 ELSE SetRegion(ConcatY(d2, da), da.region))))

\* region.py: _concat_upper_guards(da, da_global, mxg, myg)
_concat_upper_guards(da, regs, md, hc, mxg, myg) ==
    LET A == regs[da.region]
        gslices == get_upper_guards_slices(A, myg, mxg)
    IN  IF myg <= 0 THEN da
        ELSE IF A.connection_upper_y \notin DOMAIN regs THEN Raise("KeyError")
        ELSE
        Bind(from_region(regs, md, hc, A.connection_upper_y, mxg, 0), LAMBDA d0 :
        Bind(IF ~d0.ok THEN d0 ELSE IselY(d0, PySliceTo(myg, d0.h)), LAMBDA d1 :
        Bind(IF ~d1.ok THEN d1
             ELSE IF hc
             THEN IF gslices.y[2] > GlobalNy(md)
                  THEN Raise("ValueError")
                  ELSE AssignCoords(d1, GlobalCoord(GlobalNx(md), gslices.x),
                                    GlobalCoord(GlobalNy(md), gslices.y))
             ELSE d1, LAMBDA d2 :
        IF ~d2.ok THEN d2 ELSE SetRegion(ConcatY(da, d2), da.region))))

\* from_region(name, with_guards={x: mxg, y: myg}): the region's own cells,
\* then the guards of every connected edge: inner x, outer x, lower y,
\* upper y
from_region(regs, md, hc, name, mxg, myg) ==
    LET r == regs[name]
        sl == get_slices(r, 0, 0)
    IN  Bind(GlobalIsel(md, hc, sl.x, sl.y, name), LAMBDA da0 :
        Bind(IF r.connection_inner_x # None
             THEN _concat_inner_guards(da0, regs, md, hc, mxg)
             ELSE da0, LAMBDA da1 :
        Bind(IF ~da1.ok THEN da1
             ELSE IF r.connection_outer_x # None
             THEN _concat_outer_guards(da1, regs, md, hc, mxg)
             ELSE da1, LAMBDA da2 :
        Bind(IF ~da2.ok THEN da2
             ELSE IF r.connection_lower_y # None
             THEN _concat_lower_guards(da2, regs, md, hc, mxg, myg)
             ELSE da2, LAMBDA da3 :
        IF ~da3.ok THEN da3
        ELSE IF r.connection_upper_y # None
        THEN _concat_upper_guards(da3, regs, md, hc, mxg, myg)
        ELSE da3))))

RECURSIVE FetchHops(_, _, _, _, _, _)

\* a variant whose y stitchers fetch the y-neighbour with its y guards
FetchHopsKeepY(regs, md, name, mxg, myg, fuel) ==
    LET A == regs[name]
        fix == md.MYG > 0 /\ md.keep_yboundaries # 0
        XHops(B) ==
            IF B = None \/ mxg <= 0 THEN {0}
            ELSE {1 + FetchHops(regs, md, B, 0, 0, fuel - 1)}
                 \cup (IF fix /\ A.connection_lower_y = None
                          /\ regs[B].connection_lower_y # None
                       THEN {2 + FetchHops(regs, md,
                                     regs[B].connection_lower_y, 0, 0,
                                     fuel - 1)}
                       ELSE {})
                 \cup (IF fix /\ A.connection_upper_y = None
                          /\ regs[B].connection_upper_y # None
                       THEN {2 + FetchHops(regs, md,
                                     regs[B].connection_upper_y, 0, 0,
                                     fuel - 1)}
                       ELSE {})
        YHops(B) ==
            IF B = None \/ myg <= 0 THEN {0}
            ELSE {1 + FetchHops(regs, md, B, mxg, myg, fuel - 1)}
        all == XHops(A.connection_inner_x) \cup XHops(A.connection_outer_x)
                 \cup YHops(A.connection_lower_y)
                 \cup YHops(A.connection_upper_y)
    IN  IF fuel = 0 THEN 0
        ELSE CHOOSE h \in all : \A g \in all : g <= h

\* The nested fetches of from_region(name, with_guards={x: mxg, y: myg}):
\* the largest number of connections between name and a region fetched
\* while its guards are resolved.  An x stitcher fetches the x-neighbour
\* with with_guards=0 and, where it has to add boundary rows, that
\* neighbour's y-neighbour with with_guards=0; a y stitcher fetches the
\* y-neighbour with with_guards={x: mxg, y: 0}.  fuel cuts a chain of
\* nested fetches longer than MaxFetch.
FetchHops(regs, md, name, mxg, myg, fuel) ==
    LET A == regs[name]
        fix == md.MYG > 0 /\ md.keep_yboundaries # 0
        XHops(B) ==
            IF B = None \/ mxg <= 0 THEN {0}
            ELSE {1 + FetchHops(regs, md, B, 0, 0, fuel - 1)}
                 \cup (IF fix /\ A.connection_lower_y = None
                          /\ regs[B].connection_lower_y # None
                       THEN {2 + FetchHops(regs, md,
                                     regs[B].connection_lower_y, 0, 0,
                                     fuel - 1)}
                       ELSE {})
                 \cup (IF fix /\ A.connection_upper_y = None
                          /\ regs[B].connection_upper_y # None
                       THEN {2 + FetchHops(regs, md,
                                     regs[B].connection_upper_y, 0, 0,
                                     fuel - 1)}
                       ELSE {})
        YHops(B) ==
            IF B = None \/ myg <= 0 THEN {0}
            ELSE {1 + FetchHops(regs, md, B, mxg, 0, fuel - 1)}
        all == XHops(A.connection_inner_x) \cup XHops(A.connection_outer_x)
                 \cup YHops(A.connection_lower_y)
                 \cup YHops(A.connection_upper_y)
    IN  IF fuel = 0 THEN 0
        ELSE CHOOSE h \in all : \A g \in all : g <= h

(***************************************************************************)
(* The datasets: the metadata the (excluded) loader hands to region.py     *)
(***************************************************************************)
MD(nx, ny, ixs1, ixs2, jys11, jys21, nyinner, jys12, jys22, mxg, myg, kx, ky) ==
    [nx |-> nx, ny |-> ny, ixseps1 |-> ixs1, ixseps2 |-> ixs2,
     jyseps1_1 |-> jys11, jyseps2_1 |-> jys21, ny_inner |-> nyinner,
     jyseps1_2 |-> jys12, jyseps2_2 |-> jys22, MXG |-> mxg, MYG |-> myg,
     keep_xboundaries |-> kx, keep_yboundaries |-> ky]

\* a dataset has at least one x point and one y point
HasCells(md) == GlobalNx(md) >= 1 /\ md.ny >= 1

\* with_guards: the mapping axis -> width asked of from_region.  An axis
\* missing from the mapping (with_guards=None: both missing) gets the
\* dataset's own MXG or MYG
GuardRequests == UNION { [axes -> 0..MaxG] : axes \in SUBSET {"x", "y"} }
DefaultGuards == CHOOSE wg \in GuardRequests : DOMAIN wg = {}
BothAxesRequests == [{"x", "y"} -> 0..MaxG]

RequestedMxg(md, wg) == IF "x" \in DOMAIN wg THEN wg["x"] ELSE md.MXG
RequestedMyg(md, wg) == IF "y" \in DOMAIN wg THEN wg["y"] ELSE md.MYG

\* The general family: any separatrix and branch-cut indices on an
\* NX x NY grid, ordered or not, in range or not
GeneralMetadata ==
    { md \in { MD(NX, NY, i[1], i[2], j11, j21, nyi, j12, j22, g[1], g[2], kx, ky) :
                 i \in {<<0, 0>>, <<1, 1>>, <<3, 3>>, <<3, 4>>, <<4, 3>>,
                        <<-1, 3>>, <<NX - 1, NX + 1>>},
                 j11 \in {-1, 0, 1, 3}, j21 \in {0, 1},
                 nyi \in {2, 3}, j12 \in {1, 4},
                 j22 \in {0, 4, 5, NY - 1},
                 g \in {<<0, 0>>, <<1, 1>>, <<MaxG, MaxG>>},
                 kx \in {0, 1}, ky \in {0, 1} } : HasCells(md) }

\* The clamping family: separatrix and branch-cut indices and ny_inner
\* below, inside and above their ranges, in either order
ClampMetadata ==
    { md \in { MD(NX, NY, i[1], i[2], j11, j21, nyi, j12, j22, g, g, kx, ky) :
                 i \in {<<-1, 3>>, <<4, 3>>, <<3, NX + 1>>, <<3, 3>>},
                 j11 \in {-1, 1, NY}, j21 \in {1, 4, NY},
                 nyi \in {0, 3, NY + 1}, j12 \in {-1, 1, 4},
                 j22 \in {-1, 5, NY + 2},
                 g \in {0, 1}, kx \in {0, 1}, ky \in {0, 1} } : HasCells(md) }

\* The single-null scenario: ixseps1 = 3, jyseps1_1 = 2, jyseps2_2 = 10,
\* ny = 14, jyseps2_1 = jyseps1_2, ixseps2 not below ixseps1; every guard
\* width and both settings of the boundary flags
SingleNullScenario ==
    { md \in { MD(nx, 14, 3, ixs2, 2, j, nyi, j, 10, mxg, myg, kx, ky) :
                 nx \in {6, 8}, ixs2 \in {3, 8}, j \in {4, 6}, nyi \in {5, 7},
                 mxg \in 0..MaxG, myg \in 0..MaxG,
                 kx \in {0, 1}, ky \in {0, 1} } : HasCells(md) }

\* The core scenario: nx = 4, ny = 8, no X-point (no branch cut, separatrix
\* at or beyond the outer edge), MXG = MYG = 2, x- and y-boundaries kept
CoreScenario ==
    { MD(4, 8, i1, i2, j11, j, 4, j, j22, 2, 2, 1, 1) :
        i1 \in {3, 4, 5}, i2 \in {3, 4, 5}, j11 \in {-1, 0}, j \in {3, 4},
        j22 \in {7, 8} }

\* Well-formed grids on NX x NY points, one or two per topology: the
\* separatrix indices and branch cuts are ordered, in range, and leave every
\* region at least one column and one row; MXG = MYG = g
WellFormedCuts ==
    { <<NX, NX, -1, 3, 4, 3, NY - 1>>,      \* core
      <<0, 0, -1, 3, 4, 3, NY - 1>>,        \* sol
      <<3, 3, -1, 3, 4, 3, NY - 1>>,        \* limiter
      <<3, 3, 1, 3, 4, 3, 4>>,              \* single-null
      <<4, NX, 0, 3, 4, 3, 5>>,             \* single-null
      <<3, 3, 0, 1, 3, 3, 5>>,              \* connected-double-null
      <<3, 4, 0, 1, 3, 3, 5>>,              \* disconnected-double-null
      <<2, 5, 0, 1, 3, 3, 5>>,              \* disconnected-double-null
      <<3, 3, 1, 1, 3, 4, 4>> }             \* xpoint

WellFormedMetadata ==
    { md \in { MD(NX, NY, c[1], c[2], c[3], c[4], c[5], c[6], c[7], g, g, kx, ky) :
                 c \in WellFormedCuts, g \in 0..MaxG,
                 kx \in {0, 1}, ky \in {0, 1} } : HasCells(md) }

(***************************************************************************)
(* The state machine                                                       *)
(***************************************************************************)
NoArray == [ok |-> FALSE, err |-> None]
NoSlices == [method |-> None]
NoCall == [stitcher |-> None]

InitOn(mds, hcs, wgs) ==
    /\ metadata \in mds
    /\ has_coords \in hcs
    /\ with_guards \in wgs
    /\ pc = "open"
    /\ topology = None
    /\ regions = << >>
    /\ err = None
    /\ region_name = None
    /\ result = NoArray
    /\ slices = NoSlices
    /\ call = NoCall

Init == InitOn(GeneralMetadata, {TRUE}, {DefaultGuards})

\* the dataset is opened with geometry='toroidal': _create_regions_toroidal
CreateRegions ==
    /\ pc = "open"
    /\ \E out \in {_create_regions_toroidal(metadata)} :
           /\ topology' = out.topology
           /\ regions' = out.regions
           /\ err' = out.err
           /\ pc' = IF out.err = None THEN "built" ELSE "failed"
    /\ UNCHANGED <<metadata, has_coords, with_guards, region_name, result,
                   slices, call>>

\* da.bout.from_region(name, with_guards) for a key of the registry
FromRegion ==
    /\ pc = "built"
    /\ \E name \in DOMAIN regions :
          /\ region_name' = name
          /\ result' = from_region(regions, metadata, has_coords, name,
                                   RequestedMxg(metadata, with_guards),
                                   RequestedMyg(metadata, with_guards))
    /\ pc' = "extracted"
    /\ UNCHANGED <<metadata, has_coords, with_guards, topology, regions, err,
                   slices, call>>

Next == CreateRegions \/ FromRegion

\* a slice method of a region of the registry has returned sl
Sliced(name, method, sl) ==
    /\ region_name' = name
    /\ slices' = [method |-> method, x |-> sl.x, y |-> sl.y]
    /\ pc' = "sliced"
    /\ UNCHANGED <<metadata, has_coords, with_guards, topology, regions, err,
                   result, call>>

\* regions[name].get_slices(mxg, myg)
GetSlices ==
    /\ pc = "built"
    /\ \E name \in DOMAIN regions :
          Sliced(name, "get_slices",
                 get_slices(regions[name],
                            RequestedMxg(metadata, with_guards),
                            RequestedMyg(metadata, with_guards)))

\* regions[name].get_inner_guards_slices(mxg=mxg, myg=myg)
GetInnerGuardsSlices ==
    /\ pc = "built"
    /\ \E name \in DOMAIN regions :
          Sliced(name, "get_inner_guards_slices",
                 get_inner_guards_slices(regions[name],
                            RequestedMxg(metadata, with_guards),
                            RequestedMyg(metadata, with_guards)))

\* regions[name].get_outer_guards_slices(mxg=mxg, myg=myg)
GetOuterGuardsSlices ==
    /\ pc = "built"
    /\ \E name \in DOMAIN regions :
          Sliced(name, "get_outer_guards_slices",
                 get_outer_guards_slices(regions[name],
                            RequestedMxg(metadata, with_guards),
                            RequestedMyg(metadata, with_guards)))

\* regions[name].get_lower_guards_slices(myg=myg, mxg=mxg)
GetLowerGuardsSlices ==
    /\ pc = "built"
    /\ \E name \in DOMAIN regions :
          Sliced(name, "get_lower_guards_slices",
                 get_lower_guards_slices(regions[name],
                            RequestedMyg(metadata, with_guards),
                            RequestedMxg(metadata, with_guards)))

\* regions[name].get_upper_guards_slices(myg=myg, mxg=mxg)
GetUpperGuardsSlices ==
    /\ pc = "built"
    /\ \E name \in DOMAIN regions :
          Sliced(name, "get_upper_guards_slices",
                 get_upper_guards_slices(regions[name],
                            RequestedMyg(metadata, with_guards),
                            RequestedMxg(metadata, with_guards)))

\* the slice methods applied to the regions of a built registry
NextSlices ==
    \/ CreateRegions
    \/ GetSlices
    \/ GetInnerGuardsSlices
    \/ GetOuterGuardsSlices
    \/ GetLowerGuardsSlices
    \/ GetUpperGuardsSlices

\* widths a stitcher is called with: negative, zero and positive
StitchWidths == (-1)..MaxG

\* with_guards=0: no guard cells on either axis
NoGuards == [axis \in {"x", "y"} |-> 0]

\* a stitcher called with the seam-axis width has returned da
Stitched(stitcher, width, da) ==
    /\ call' = [stitcher |-> stitcher, width |-> width]
    /\ result' = da
    /\ pc' = "stitched"
    /\ UNCHANGED <<metadata, has_coords, with_guards, topology, regions, err,
                   region_name, slices>>

\* _concat_inner_guards(da, da_global, mxg) on an extracted array
ConcatInnerGuards ==
    /\ pc = "extracted" /\ result.ok
    /\ \E mxg \in StitchWidths :
          Stitched("_concat_inner_guards", mxg,
                   _concat_inner_guards(result, regions, metadata, has_coords,
                                        mxg))

\* _concat_outer_guards(da, da_global, mxg) on an extracted array
ConcatOuterGuards ==
    /\ pc = "extracted" /\ result.ok
    /\ \E mxg \in StitchWidths :
          Stitched("_concat_outer_guards", mxg,
                   _concat_outer_guards(result, regions, metadata, has_coords,
                                        mxg))

\* _concat_lower_guards(da, da_global, mxg, myg) on an extracted array
ConcatLowerGuards ==
    /\ pc = "extracted" /\ result.ok
    /\ \E myg \in StitchWidths :
          Stitched("_concat_lower_guards", myg,
                   _concat_lower_guards(result, regions, metadata, has_coords,
                                        RequestedMxg(metadata, with_guards),
                                        myg))

\* _concat_upper_guards(da, da_global, mxg, myg) on an extracted array
ConcatUpperGuards ==
    /\ pc = "extracted" /\ result.ok
    /\ \E myg \in StitchWidths :
          Stitched("_concat_upper_guards", myg,
                   _concat_upper_guards(result, regions, metadata, has_coords,
                                        RequestedMxg(metadata, with_guards),
                                        myg))

\* the stitchers applied to the interior array of a region
NextStitch ==
    \/ CreateRegions
    \/ FromRegion
    \/ ConcatInnerGuards
    \/ ConcatOuterGuards
    \/ ConcatLowerGuards
    \/ ConcatUpperGuards

InitStitch == InitOn(WellFormedMetadata, BOOLEAN, {NoGuards})
SpecStitch == InitStitch /\ [][NextStitch]_vars

(***************************************************************************)
(* Sequences of calls on the array of one region: after the extraction,   *)
(* up to MaxSeq calls of the slice methods of da.region and of the four    *)
(* stitchers, each stitcher applied to what the one before returned        *)
(***************************************************************************)
\* number of calls already made in the sequence
SeqDepth == IF call = NoCall THEN 0 ELSE call.depth

\* the guard width passed along a sequence: that of the dataset
SeqWidths == {MaxG}

\* a call may follow: an array is at hand and the sequence is not full
MayCall ==
    /\ pc \in {"extracted", "stitched"}
    /\ result.ok
    /\ SeqDepth < MaxSeq

\* a variant in which the call cuts the region's inner-x connection
CalledCuttingRegion(stitcher, width, other, da_in, da_out) ==
    /\ call' = [stitcher |-> stitcher, width |-> width, other |-> other,
                depth |-> SeqDepth + 1, da |-> da_in]
    /\ result' = da_out
    /\ pc' = "stitched"
    /\ regions' = [regions EXCEPT ![region_name].connection_inner_x = None]
    /\ UNCHANGED <<metadata, has_coords, with_guards, topology, err,
                   region_name, slices>>

\* a stitcher called on the array da_in with the seam-axis width (and, for
\* the y stitchers, the other axis' width) has returned da_out; the caller
\* still holds da_in
Called(stitcher, width, other, da_in, da_out) ==
    /\ call' = [stitcher |-> stitcher, width |-> width, other |-> other,
                depth |-> SeqDepth + 1, da |-> da_in]
    /\ result' = da_out
    /\ pc' = "stitched"
    /\ UNCHANGED <<metadata, has_coords, with_guards, topology, regions, err,
                   region_name, slices>>

\* a slice method of da.region has returned sl; the array is not touched
CalledSlices(method, width, sl) ==
    /\ call' = [stitcher |-> method, width |-> width, other |-> width,
                depth |-> SeqDepth + 1, da |-> result]
    /\ slices' = [method |-> method, x |-> sl.x, y |-> sl.y]
    /\ pc' = "stitched"
    /\ UNCHANGED <<metadata, has_coords, with_guards, topology, regions, err,
                   region_name, result>>

\* da = _concat_inner_guards(da, da_global, mxg)
ThenConcatInnerGuards ==
    /\ MayCall
    /\ \E mxg \in SeqWidths :
          Called("_concat_inner_guards", mxg, 0, result,
                 _concat_inner_guards(result, regions, metadata, has_coords,
                                      mxg))

\* da = _concat_outer_guards(da, da_global, mxg)
ThenConcatOuterGuards ==
    /\ MayCall
    /\ \E mxg \in SeqWidths :
          Called("_concat_outer_guards", mxg, 0, result,
                 _concat_outer_guards(result, regions, metadata, has_coords,
                                      mxg))

\* da = _concat_lower_guards(da, da_global, mxg, myg)
ThenConcatLowerGuards ==
    /\ MayCall
    /\ \E mxg \in {0} \cup SeqWidths, myg \in SeqWidths :
          Called("_concat_lower_guards", myg, mxg, result,
                 _concat_lower_guards(result, regions, metadata, has_coords,
                                      mxg, myg))

\* da = _concat_upper_guards(da, da_global, mxg, myg)
ThenConcatUpperGuards ==
    /\ MayCall
    /\ \E mxg \in {0} \cup SeqWidths, myg \in SeqWidths :
          Called("_concat_upper_guards", myg, mxg, result,
                 _concat_upper_guards(result, regions, metadata, has_coords,
                                      mxg, myg))

\* da.region.get_slices(mxg, myg)
ThenGetSlices ==
    /\ MayCall
    /\ \E g \in SeqWidths :
          CalledSlices("get_slices", g,
                       get_slices(regions[result.region], g, g))

\* da.region.get_inner_guards_slices(mxg=mxg)
ThenGetInnerGuardsSlices ==
    /\ MayCall
    /\ \E g \in SeqWidths :
          CalledSlices("get_inner_guards_slices", g,
                       get_inner_guards_slices(regions[result.region], g, 0))

\* da.region.get_outer_guards_slices(mxg=mxg)
ThenGetOuterGuardsSlices ==
    /\ MayCall
    /\ \E g \in SeqWidths :
          CalledSlices("get_outer_guards_slices", g,
                       get_outer_guards_slices(regions[result.region], g, 0))

\* da.region.get_lower_guards_slices(mxg=mxg, myg=myg)
ThenGetLowerGuardsSlices ==
    /\ MayCall
    /\ \E g \in SeqWidths :
          CalledSlices("get_lower_guards_slices", g,
                       get_lower_guards_slices(regions[result.region], g, g))

\* da.region.get_upper_guards_slices(mxg=mxg, myg=myg)
ThenGetUpperGuardsSlices ==
    /\ MayCall
    /\ \E g \in SeqWidths :
          CalledSlices("get_upper_guards_slices", g,
                       get_upper_guards_slices(regions[result.region], g, g))

NextSeq ==
    \/ CreateRegions
    \/ FromRegion
    \/ ThenConcatInnerGuards
    \/ ThenConcatOuterGuards
    \/ ThenConcatLowerGuards
    \/ ThenConcatUpperGuards
    \/ ThenGetSlices
    \/ ThenGetInnerGuardsSlices
    \/ ThenGetOuterGuardsSlices
    \/ ThenGetLowerGuardsSlices
    \/ ThenGetUpperGuardsSlices

\* the well-formed grids with MaxG guard cells, extracted without guards
InitSeq ==
    InitOn({ md \in WellFormedMetadata : md.MXG = MaxG }, BOOLEAN,
           {NoGuards})

SpecSeq == InitSeq /\ [][NextSeq]_vars

InitSlices == InitOn(WellFormedMetadata, {TRUE}, BothAxesRequests)
SpecSlices == InitSlices /\ [][NextSlices]_vars

Spec == Init /\ [][Next]_vars

InitC7 == InitOn(SingleNullScenario, {TRUE}, {DefaultGuards})
SpecC7 == InitC7 /\ [][Next]_vars

InitC8 == InitOn(CoreScenario, BOOLEAN, {DefaultGuards})
SpecC8 == InitC8 /\ [][Next]_vars

InitWF == InitOn(WellFormedMetadata, BOOLEAN, BothAxesRequests)
SpecWF == InitWF /\ [][Next]_vars

TypeOK ==
    /\ pc \in {"open", "built", "failed", "extracted", "sliced", "stitched"}
    /\ topology \in Topologies \cup {None}

(***************************************************************************)
(* The builder alone, on the clamping family                               *)
(***************************************************************************)
InitClamp == InitOn(ClampMetadata, {TRUE}, {DefaultGuards})

NextClamp == CreateRegions

SpecClamp == InitClamp /\ [][NextClamp]_vars


(***************************************************************************)
(* Properties                                                              *)
(***************************************************************************)
\* the registry has been built and attached to the dataset
Built == pc \in {"built", "extracted"}

\* the cells of a region's index rectangle [xin, xout) x [ylow, yup)
Cells(r) ==
    { <<x, y>> : x \in r.xinner_ind..(r.xouter_ind - 1),
                 y \in r.ylower_ind..(r.yupper_ind - 1) }

\* the cells of the global array
Grid == { <<x, y>> : x \in 0..(GlobalNx(metadata) - 1),
                     y \in 0..(GlobalNy(metadata) - 1) }

\* C1 - partition: in every built registry the regions' index rectangles are
\* pairwise disjoint and their union is exactly the global grid rectangle.
C1_Partition ==
    Built =>
        /\ UNION { Cells(regions[k]) : k \in DOMAIN regions } = Grid
        /\ \A k1, k2 \in DOMAIN regions :
              k1 # k2 => Cells(regions[k1]) \cap Cells(regions[k2]) = {}

\* C2 - connection symmetry: A's outer-x connection is B exactly when B's
\* inner-x connection is A, and A's upper-y connection is B exactly when B's
\* lower-y connection is A, for all keys A and B of a built registry.
C2_ConnectionSymmetry ==
    Built =>
        \A A \in DOMAIN regions, B \in DOMAIN regions :
            /\ regions[A].connection_outer_x = B
                  <=> regions[B].connection_inner_x = A
            /\ regions[A].connection_upper_y = B
                  <=> regions[B].connection_lower_y = A

\* a registry wired by two calls in opposite directions (the core halves of
\* a double null), next to regions wired once
C2_Witness ==
    /\ pc = "built"
    /\ topology = "disconnected-double-null"
    /\ regions["inner_core"].connection_upper_y = "outer_core"
    /\ regions["inner_core"].connection_lower_y = "outer_core"
    /\ regions["inner_intersep"].connection_outer_x = "inner_SOL"

\* C3 - non-degenerate bounds: every region of a built registry has
\* 0 <= xinner_ind < xouter_ind and 0 <= ylower_ind < yupper_ind.
C3_NonDegenerate ==
    Built =>
        \A k \in DOMAIN regions :
            /\ 0 <= regions[k].xinner_ind
            /\ regions[k].xinner_ind < regions[k].xouter_ind
            /\ 0 <= regions[k].ylower_ind
            /\ regions[k].ylower_ind < regions[k].yupper_ind

\* C4 - classifier step 1: when jyseps2_1 = jyseps1_2 the classifier does not
\* fail; the tag is single-null unless jyseps1_1 <= 0 and jyseps2_2 >= ny - 1,
\* and in that case core if min(ixseps1, ixseps2) >= nx - 1, else sol if the
\* minimum is <= 0, else limiter.
C4_ClassifierStep1 ==
    LET md == metadata
        noCut == md.jyseps1_1 <= 0 /\ md.jyseps2_2 >= md.ny - 1
        ix == Min(md.ixseps1, md.ixseps2)
    IN  (pc # "open" /\ md.jyseps2_1 = md.jyseps1_2) =>
            /\ err # "ValueError"
            /\ ~noCut => topology = "single-null"
            /\ (noCut /\ ix >= md.nx - 1) => topology = "core"
            /\ (noCut /\ ix < md.nx - 1 /\ ix <= 0) => topology = "sol"
            /\ (noCut /\ ix < md.nx - 1 /\ ix > 0) => topology = "limiter"

\* a dataset without branch cut whose smaller separatrix index is exactly
\* nx - 1, classified
C4_Witness ==
    /\ pc = "built"
    /\ metadata.jyseps2_1 = metadata.jyseps1_2
    /\ Min(metadata.ixseps1, metadata.ixseps2) = metadata.nx - 1
    /\ topology = "core"

\* the outcome of steps 2-4 of the classifier, given the y-ordering test
\* applied to a connected double null
Steps2To4(cdnOrdered) ==
    LET md == metadata
    IN  /\ (pc # "open" /\ md.jyseps2_1 # md.jyseps1_2) =>
              IF md.jyseps1_1 = md.jyseps2_1 /\ md.jyseps1_2 = md.jyseps2_2
              THEN IF md.jyseps1_1 < md.ny_inner - 1
                      /\ md.jyseps2_2 > md.ny_inner
                   THEN topology = "xpoint" /\ err # "ValueError"
                   ELSE err = "ValueError"
              ELSE IF md.ixseps1 = md.ixseps2
              THEN IF cdnOrdered
                   THEN topology = "connected-double-null"
                        /\ err # "ValueError"
                   ELSE err = "ValueError"
              ELSE topology = "disconnected-double-null"
                   /\ err # "ValueError"
        /\ (pc # "open" /\ md.jyseps2_1 = md.jyseps1_2) => err # "ValueError"

\* C5 (as stated) - steps 2-4, first match wins: xpoint or failure when the
\* branch cuts coincide pairwise; else, for equal separatrix indices,
\* connected-double-null when both jyseps1_1 and jyseps2_1 are < ny_inner - 1
\* and both jyseps1_2 and jyseps2_2 are > ny_inner, failure otherwise; else
\* disconnected-double-null; the classifier fails in no other case.
C5_Original ==
    Steps2To4(/\ metadata.jyseps1_1 < metadata.ny_inner - 1
              /\ metadata.jyseps2_1 < metadata.ny_inner - 1
              /\ metadata.jyseps1_2 > metadata.ny_inner
              /\ metadata.jyseps2_2 > metadata.ny_inner)

\* C5 (amended) - as above, but the connected-double-null test looks at the
\* two inner branch cuts only: jyseps2_1 < ny_inner - 1 and
\* jyseps1_2 > ny_inner.
C5_ClassifierSteps2To4 ==
    Steps2To4(/\ metadata.jyseps2_1 < metadata.ny_inner - 1
              /\ metadata.jyseps1_2 > metadata.ny_inner)

\* a connected double null whose outer cut jyseps1_1 is not below ny_inner - 1
C5_Witness ==
    /\ pc # "open"
    /\ topology = "connected-double-null"
    /\ metadata.jyseps1_1 >= metadata.ny_inner - 1

\* C6 - builder totality: whenever the classifier returns a tag, the builder
\* returns a registry without error (in particular it never raises
\* NotImplementedError).
C6_BuilderTotal ==
    (pc # "open" /\ err # "ValueError") => (err = None /\ Built)

\* C7 - single-null scenario (ixseps1 = 3, jyseps1_1 = 2, jyseps2_2 = 10,
\* ny = 14, jyseps2_1 = jyseps1_2): 'inner_PFR' has index bounds exactly
\* x in [0,3) and y in [0,3) and connection_outer_x 'inner_SOL', whatever
\* MXG, MYG, keep_xboundaries and keep_yboundaries are.
C7_Original ==
    Built =>
        LET r == regions["inner_PFR"]
        IN  /\ r.xinner_ind = 0 /\ r.xouter_ind = 3
            /\ r.ylower_ind = 0 /\ r.yupper_ind = 3
            /\ r.connection_outer_x = "inner_SOL"

\* C7 (amended) - in the single-null scenario 'inner_PFR' has index bounds
\* x in [0, 3 - MXG) when the x-boundary cells are dropped and [0, 3) when
\* they are kept, y in [0, 3 + MYG) when the y-boundary cells are kept and
\* [0, 3) when they are dropped; its connection_outer_x is 'inner_SOL'.
C7_InnerPFRBounds ==
    Built =>
        LET r == regions["inner_PFR"]
            md == metadata
        IN  /\ r.xinner_ind = 0
            /\ r.xouter_ind = 3 - (1 - md.keep_xboundaries) * md.MXG
            /\ r.ylower_ind = 0
            /\ r.yupper_ind = 3 + md.keep_yboundaries * md.MYG
            /\ r.connection_outer_x = "inner_SOL"

\* a single-null registry built without x-boundary cells and with
\* y-boundary cells, for guard widths 1
C7_Witness ==
    /\ Built
    /\ metadata.keep_xboundaries = 0 /\ metadata.MXG = 1
    /\ metadata.keep_yboundaries = 1 /\ metadata.MYG = 1
    /\ regions["inner_PFR"].xouter_ind = 2
    /\ regions["inner_PFR"].yupper_ind = 4

\* the region 'core' has been extracted
CoreExtracted == pc = "extracted" /\ region_name = "core"

\* C8 - core scenario (nx = 4, ny = 8, no X-point, MXG = MYG = 2, x- and
\* y-boundaries kept): extracting 'core' with default guards returns the
\* full dataset array, cell for cell over the whole global index range,
\* boundary rows included.
C8_Original ==
    CoreExtracted =>
        /\ result.ok
        /\ result.w = GlobalNx(metadata) /\ result.h = GlobalNy(metadata)
        /\ \A i \in 1..result.w, j \in 1..result.h :
               result.at[i, j] = <<i - 1, j - 1>>

\* C8 (amended) - in the core scenario, extracting 'core' with default
\* guards returns an array of the size of the full dataset array that equals
\* it on every row that is not a y-boundary row; the MYG rows at its lower
\* end are the last MYG non-boundary rows of the dataset and the MYG rows at
\* its upper end are the first MYG non-boundary rows.
C8_CoreExtraction ==
    CoreExtracted =>
        LET myg == metadata.MYG
            ny == metadata.ny
        IN  /\ result.ok
            /\ result.w = GlobalNx(metadata) /\ result.h = GlobalNy(metadata)
            /\ \A i \in 1..result.w :
                  /\ \A j \in (myg + 1)..(myg + ny) :
                        result.at[i, j] = <<i - 1, j - 1>>
                  /\ \A j \in 1..myg :
                        result.at[i, j] = <<i - 1, j - 1 + ny>>
                  /\ \A j \in (myg + ny + 1)..(ny + 2 * myg) :
                        result.at[i, j] = <<i - 1, j - 1 - ny>>

\* 'core' extracted in the core scenario: 4 columns, 8 + 2 * 2 rows
C8_Witness ==
    /\ CoreExtracted
    /\ topology = "core"
    /\ result.ok
    /\ result.w = 4 /\ result.h = 12

\* the guard widths asked of the extraction
ReqX == RequestedMxg(metadata, with_guards)
ReqY == RequestedMyg(metadata, with_guards)

\* the region whose array has been extracted
ExtractedRegion == regions[region_name]

\* the rows of the global array that are y-boundary rows: below the lower
\* targets, above them, and on both sides of the upper targets
IsYBoundaryRow(gy) ==
    LET a == Adjusted(metadata)
    IN  \/ gy < a.ybndry
        \/ gy >= a.ny - a.ybndry
        \/ (a.nyinner - a.ybndry_upper <= gy /\ gy < a.nyinner + a.ybndry_upper)

\* number of guard columns / rows the extraction puts on each edge
GuardsInner == IF ExtractedRegion.connection_inner_x # None THEN ReqX ELSE 0
GuardsOuter == IF ExtractedRegion.connection_outer_x # None THEN ReqX ELSE 0
GuardsLower == IF ExtractedRegion.connection_lower_y # None THEN ReqY ELSE 0
GuardsUpper == IF ExtractedRegion.connection_upper_y # None THEN ReqY ELSE 0
InteriorW == ExtractedRegion.xouter_ind - ExtractedRegion.xinner_ind
InteriorH == ExtractedRegion.yupper_ind - ExtractedRegion.ylower_ind

\* C9 - x guard continuity: for every region A with an inner-x (outer-x)
\* connection and every guard width w from 0 to MXG, the w guard columns
\* stitched onto A hold, on every row of A that is not a y-boundary row, the
\* global array values at x in [A.xinner_ind - w, A.xinner_ind)
\* ([A.xouter_ind, A.xouter_ind + w)) at the same y index.
C9_XGuardContinuity ==
    (pc = "extracted" /\ ReqX <= metadata.MXG /\ ReqY = 0) =>
        LET A == ExtractedRegion
        IN  /\ result.ok
            /\ result.w = GuardsInner + InteriorW + GuardsOuter
            /\ result.h = InteriorH
            /\ \A j \in 1..InteriorH :
                  ~IsYBoundaryRow(A.ylower_ind + j - 1) =>
                     /\ \A i \in 1..GuardsInner :
                           result.at[i, j] =
                              <<A.xinner_ind - GuardsInner + i - 1,
                                A.ylower_ind + j - 1>>
                     /\ \A i \in 1..GuardsOuter :
                           result.at[GuardsInner + InteriorW + i, j] =
                              <<A.xouter_ind + i - 1, A.ylower_ind + j - 1>>

\* C10 - y guard continuity: for every region A with an upper-y connection
\* to B and every guard width w in 1..MYG for which the stitch succeeds, the
\* w rows appended above A equal the first w interior rows of B, and for a
\* lower-y connection the w rows prepended equal the last w interior rows of
\* B, over A's x range widened by the x-guards on A's connected x edges
\* (B may be A itself).
C10_YGuardContinuity ==
    (/\ pc = "extracted" /\ result.ok
     /\ ReqX <= metadata.MXG /\ ReqY \in 1..metadata.MYG) =>
        LET A == ExtractedRegion
            x0 == A.xinner_ind - GuardsInner
        IN  /\ result.w = GuardsInner + InteriorW + GuardsOuter
            /\ result.h = GuardsLower + InteriorH + GuardsUpper
            /\ \A i \in 1..result.w :
                  /\ \A k \in 1..GuardsLower :
                        result.at[i, k] =
                           <<x0 + i - 1,
                             regions[A.connection_lower_y].yupper_ind
                                - GuardsLower + k - 1>>
                  /\ \A k \in 1..GuardsUpper :
                        result.at[i, GuardsLower + InteriorH + k] =
                           <<x0 + i - 1,
                             regions[A.connection_upper_y].ylower_ind + k - 1>>

\* the rows a y-guard stitch of the extracted region needs lie outside the
\* global array
LowerGuardsOutside ==
    /\ ExtractedRegion.connection_lower_y # None /\ ReqY > 0
    /\ ExtractedRegion.ylower_ind - ReqY < 0
UpperGuardsOutside ==
    /\ ExtractedRegion.connection_upper_y # None /\ ReqY > 0
    /\ ExtractedRegion.yupper_ind + ReqY > GlobalNy(metadata)

\* 'core' of a core or limiter topology has been extracted with y guards
PeriodicCoreExtracted ==
    /\ CoreExtracted /\ topology \in {"core", "limiter"}
    /\ ReqX <= metadata.MXG /\ ReqY \in 1..metadata.MYG

\* C11 - missing boundary data: whenever the rows needed for a y-guard stitch
\* lie outside the global array (lower guard slice starting below 0, upper
\* guard slice ending beyond the global y size) the stitch fails and returns
\* no array; for core and limiter topologies with keep_yboundaries = 0 and
\* MYG > 0 extracting 'core' fails, with keep_yboundaries = 1 it succeeds.
C11_Original ==
    /\ (pc = "extracted" /\ (LowerGuardsOutside \/ UpperGuardsOutside))
          => ~result.ok
    /\ PeriodicCoreExtracted =>
          (result.ok <=> metadata.keep_yboundaries = 1)

\* C11 (amended) - as above for an array that carries the y coordinate: the
\* stitch then fails with a ValueError; an array without coordinates is not
\* checked against the global array.  Extracting 'core' in core and limiter
\* topologies succeeds with keep_yboundaries = 1, and fails with
\* keep_yboundaries = 0 when the array carries coordinates.
C11_MissingBoundaryData ==
    /\ (pc = "extracted" /\ has_coords
        /\ (LowerGuardsOutside \/ UpperGuardsOutside))
          => (~result.ok /\ result.err = "ValueError")
    /\ PeriodicCoreExtracted =>
          /\ metadata.keep_yboundaries = 1 => result.ok
          /\ (metadata.keep_yboundaries = 0 /\ has_coords) => ~result.ok

\* only the lower guard slice of a region lies outside the global array and
\* the extraction has failed
C11_Witness ==
    /\ pc = "extracted" /\ has_coords
    /\ LowerGuardsOutside /\ ~UpperGuardsOutside
    /\ ~result.ok /\ result.err = "ValueError"

\* a slice method has been applied to the region named region_name
SlicedBy(method) == pc = "sliced" /\ slices.method = method

\* the range [lower - (g if the lower edge is connected), upper + (g if the
\* upper edge is connected))
Extended(lower, lower_connection, upper, upper_connection, g) ==
    << IF lower_connection # None THEN lower - g ELSE lower,
       IF upper_connection # None THEN upper + g ELSE upper >>

\* C12 - region slicing: get_slices(mxg, myg) returns the x range
\* [xinner_ind - (mxg if connection_inner_x is set), xouter_ind + (mxg if
\* connection_outer_x is set)) and the y range [ylower_ind - (myg if
\* connection_lower_y is set), yupper_ind + (myg if connection_upper_y is
\* set)); with mxg = myg = 0 it returns the region's own bounds.
C12_RegionSlicing ==
    SlicedBy("get_slices") =>
        LET r == ExtractedRegion
        IN  /\ slices.x = Extended(r.xinner_ind, r.connection_inner_x,
                                   r.xouter_ind, r.connection_outer_x, ReqX)
            /\ slices.y = Extended(r.ylower_ind, r.connection_lower_y,
                                   r.yupper_ind, r.connection_upper_y, ReqY)

\* C13 - guard slices: get_inner_guards_slices selects x in
\* [xinner_ind - mxg, xinner_ind), get_outer_guards_slices x in
\* [xouter_ind, xouter_ind + mxg), get_lower_guards_slices y in
\* [ylower_ind - myg, ylower_ind), get_upper_guards_slices y in
\* [yupper_ind, yupper_ind + myg); the orthogonal range is the region's own
\* range extended by the orthogonal guard width on exactly the connected
\* orthogonal edges.
C13_GuardSlices ==
    LET r == ExtractedRegion
        yrange == Extended(r.ylower_ind, r.connection_lower_y,
                           r.yupper_ind, r.connection_upper_y, ReqY)
        xrange == Extended(r.xinner_ind, r.connection_inner_x,
                           r.xouter_ind, r.connection_outer_x, ReqX)
    IN  /\ SlicedBy("get_inner_guards_slices") =>
              /\ slices.x = <<r.xinner_ind - ReqX, r.xinner_ind>>
              /\ slices.y = yrange
        /\ SlicedBy("get_outer_guards_slices") =>
              /\ slices.x = <<r.xouter_ind, r.xouter_ind + ReqX>>
              /\ slices.y = yrange
        /\ SlicedBy("get_lower_guards_slices") =>
              /\ slices.y = <<r.ylower_ind - ReqY, r.ylower_ind>>
              /\ slices.x = xrange
        /\ SlicedBy("get_upper_guards_slices") =>
              /\ slices.y = <<r.yupper_ind, r.yupper_ind + ReqY>>
              /\ slices.x = xrange

\* the inner guard slices of a region connected below but not above, for
\* positive widths
C13_Witness ==
    /\ SlicedBy("get_inner_guards_slices")
    /\ ReqX > 0 /\ ReqY > 0
    /\ ExtractedRegion.connection_lower_y # None
    /\ ExtractedRegion.connection_upper_y = None
    /\ slices.y = <<ExtractedRegion.ylower_ind - ReqY,
                    ExtractedRegion.yupper_ind>>

\* C14 - exact guard width: for every connected edge of every region and
\* every requested width w > 0 the stitcher adds exactly w cells along the
\* seam axis, also when the immediate neighbour is narrower than w cells
\* (rows that C11 says are missing from the global array excepted).
C14_ExactGuardWidth ==
    (/\ pc = "extracted"
     /\ ~(has_coords /\ (LowerGuardsOutside \/ UpperGuardsOutside))) =>
        /\ result.ok
        /\ result.w = GuardsInner + InteriorW + GuardsOuter
        /\ result.h = GuardsLower + InteriorH + GuardsUpper

\* C15 - no-op: each of the four stitchers, called with a width <= 0 along
\* its seam axis, returns its input array itself, unchanged, also when the
\* region has no connection in that direction.
C15_NoOp ==
    [][(pc' = "stitched" /\ call'.width <= 0) => result' = result]_vars

\* _concat_inner_guards has returned for width 0 and a region without an
\* inner-x connection
C15_Witness ==
    /\ pc = "stitched"
    /\ call.stitcher = "_concat_inner_guards" /\ call.width = 0
    /\ ExtractedRegion.connection_inner_x = None
    /\ result.ok

\* the connections of a region: inner x, outer x, lower y, upper y
Connections(r) ==
    <<r.connection_inner_x, r.connection_outer_x,
      r.connection_lower_y, r.connection_upper_y>>

\* C16 - simple topologies: 'core' has exactly one region 'core' over the
\* whole x range, connected to itself in y and not in x; 'sol' has exactly
\* one region 'SOL' with bounds [0,nx') x [0,ny') and no connections, so
\* that extracting it returns the whole array for any guard setting;
\* 'limiter' has exactly 'core' (self-connected in y) and 'SOL' (full y
\* range, no y-connections), connected core -> SOL in x.
C16_SimpleTopologies ==
    Built =>
        /\ topology = "core" =>
              /\ DOMAIN regions = {"core"}
              /\ regions["core"].xinner_ind = 0
              /\ regions["core"].xouter_ind = GlobalNx(metadata)
              /\ Connections(regions["core"]) = <<None, None, "core", "core">>
        /\ topology = "sol" =>
              /\ DOMAIN regions = {"SOL"}
              /\ regions["SOL"].xinner_ind = 0
              /\ regions["SOL"].xouter_ind = GlobalNx(metadata)
              /\ regions["SOL"].ylower_ind = 0
              /\ regions["SOL"].yupper_ind = GlobalNy(metadata)
              /\ Connections(regions["SOL"]) = <<None, None, None, None>>
              /\ pc = "extracted" =>
                    /\ result.ok
                    /\ result.w = GlobalNx(metadata)
                    /\ result.h = GlobalNy(metadata)
                    /\ \A i \in 1..result.w, j \in 1..result.h :
                          result.at[i, j] = <<i - 1, j - 1>>
        /\ topology = "limiter" =>
              /\ DOMAIN regions = {"core", "SOL"}
              /\ Connections(regions["core"]) = <<None, "SOL", "core", "core">>
              /\ Connections(regions["SOL"]) = <<"core", None, None, None>>
              /\ regions["SOL"].ylower_ind = 0
              /\ regions["SOL"].yupper_ind = GlobalNy(metadata)

\* 'SOL' extracted in sol topology with guards asked for on both axes
C16_Witness ==
    /\ pc = "extracted" /\ topology = "sol"
    /\ ReqX > 0 /\ ReqY > 0
    /\ result.ok /\ result.w = GlobalNx(metadata)

\* the registry has exactly the keys of table, a set of pairs
\* <<key, <<inner x, outer x, lower y, upper y>> >>, and every region has
\* the connections the table gives it
HasConnections(table) ==
    /\ DOMAIN regions = { e[1] : e \in table }
    /\ \A e \in table : Connections(regions[e[1]]) = e[2]

\* xpoint: a PFR-SOL x-connection at each of the 4 poloidal segments and the
\* y-connections lower_inner_PFR -> lower_outer_PFR, lower_inner_SOL ->
\* upper_inner_SOL, upper_outer_PFR -> upper_inner_PFR, upper_outer_SOL ->
\* lower_outer_SOL, and no other connection
XpointConnections ==
    HasConnections({
      <<"lower_inner_PFR", <<None, "lower_inner_SOL", None, "lower_outer_PFR">> >>,
      <<"lower_inner_SOL", <<"lower_inner_PFR", None, None, "upper_inner_SOL">> >>,
      <<"upper_inner_PFR", <<None, "upper_inner_SOL", "upper_outer_PFR", None>> >>,
      <<"upper_inner_SOL", <<"upper_inner_PFR", None, "lower_inner_SOL", None>> >>,
      <<"upper_outer_PFR", <<None, "upper_outer_SOL", None, "upper_inner_PFR">> >>,
      <<"upper_outer_SOL", <<"upper_outer_PFR", None, None, "lower_outer_SOL">> >>,
      <<"lower_outer_PFR", <<None, "lower_outer_SOL", "lower_inner_PFR", None>> >>,
      <<"lower_outer_SOL", <<"lower_outer_PFR", None, "upper_outer_SOL", None>> >> })

\* C17 - xpoint topology: the registry contains exactly 6 regions, with a
\* PFR-SOL x-connection at each of the 4 poloidal segments, the four
\* y-connections listed above and no other connections.
C17_Original ==
    (Built /\ topology = "xpoint") =>
        /\ Cardinality(DOMAIN regions) = 6
        /\ XpointConnections

\* C17 (amended) - xpoint topology: the registry contains exactly 8 regions,
\* a PFR and a SOL region at each of the 4 poloidal segments, with the
\* connections listed above and no other.
C17_XpointTopology ==
    (Built /\ topology = "xpoint") =>
        /\ Cardinality(DOMAIN regions) = 8
        /\ XpointConnections

\* a registry built for an xpoint grid
C17_Witness ==
    /\ Built /\ topology = "xpoint"
    /\ "upper_outer_PFR" \in DOMAIN regions

\* C18 - single-null topology: the registry contains exactly the 6 keys
\* inner_PFR, inner_SOL, core, SOL, outer_PFR, outer_SOL; core is connected
\* to itself in y; inner_PFR.connection_upper_y = 'outer_PFR'; inner_SOL ->
\* SOL -> outer_SOL are chained in y; the x-connections are exactly
\* inner_PFR-inner_SOL, core-SOL, outer_PFR-outer_SOL.
C18_SingleNullTopology ==
    (Built /\ topology = "single-null") =>
        HasConnections({
          <<"inner_PFR", <<None, "inner_SOL", None, "outer_PFR">> >>,
          <<"inner_SOL", <<"inner_PFR", None, None, "SOL">> >>,
          <<"core", <<None, "SOL", "core", "core">> >>,
          <<"SOL", <<"core", None, "inner_SOL", "outer_SOL">> >>,
          <<"outer_PFR", <<None, "outer_SOL", "inner_PFR", None>> >>,
          <<"outer_SOL", <<"outer_PFR", None, "SOL", None>> >> })

\* a registry built for a single-null grid
C18_Witness ==
    /\ Built /\ topology = "single-null"
    /\ regions["inner_PFR"].connection_upper_y = "outer_PFR"

\* connected-double-null: every inner column (PFR or core) is x-connected to
\* the SOL region of its poloidal segment, inner_core and outer_core are
\* y-connected to each other in both directions, the PFR halves are
\* y-connected across their targets and the SOL regions are chained in y on
\* the inner and on the outer side
ConnectedDoubleNullConnections ==
    HasConnections({
      <<"lower_inner_PFR", <<None, "lower_inner_SOL", None, "lower_outer_PFR">> >>,
      <<"lower_inner_SOL", <<"lower_inner_PFR", None, None, "inner_SOL">> >>,
      <<"inner_core", <<None, "inner_SOL", "outer_core", "outer_core">> >>,
      <<"inner_SOL", <<"inner_core", None, "lower_inner_SOL", "upper_inner_SOL">> >>,
      <<"upper_inner_PFR", <<None, "upper_inner_SOL", "upper_outer_PFR", None>> >>,
      <<"upper_inner_SOL", <<"upper_inner_PFR", None, "inner_SOL", None>> >>,
      <<"upper_outer_PFR", <<None, "upper_outer_SOL", None, "upper_inner_PFR">> >>,
      <<"upper_outer_SOL", <<"upper_outer_PFR", None, None, "outer_SOL">> >>,
      <<"outer_core", <<None, "outer_SOL", "inner_core", "inner_core">> >>,
      <<"outer_SOL", <<"outer_core", None, "upper_outer_SOL", "lower_outer_SOL">> >>,
      <<"lower_outer_PFR", <<None, "lower_outer_SOL", "lower_inner_PFR", None>> >>,
      <<"lower_outer_SOL", <<"lower_outer_PFR", None, "outer_SOL", None>> >> })

\* C19 - connected-double-null topology: the registry contains exactly 10
\* regions, every inner column is x-connected to the SOL region of the same
\* poloidal segment, inner_core and outer_core are y-connected to each other
\* in both directions, and the PFR halves are y-connected across their
\* targets (lower_inner_PFR -> lower_outer_PFR, upper_outer_PFR ->
\* upper_inner_PFR).
C19_Original ==
    (Built /\ topology = "connected-double-null") =>
        /\ Cardinality(DOMAIN regions) = 10
        /\ ConnectedDoubleNullConnections

\* C19 (amended) - as above, with exactly 12 regions: a PFR or core region
\* and a SOL region at each of the 6 poloidal segments.
C19_ConnectedDoubleNullTopology ==
    (Built /\ topology = "connected-double-null") =>
        /\ Cardinality(DOMAIN regions) = 12
        /\ ConnectedDoubleNullConnections

\* a registry built for a connected-double-null grid
C19_Witness ==
    /\ Built /\ topology = "connected-double-null"
    /\ regions["outer_core"].connection_upper_y = "inner_core"

\* C20 - disconnected-double-null topology: the registry contains exactly 18
\* regions; at every poloidal segment the three regions are chained in x as
\* (PFR or core) -> intersep -> SOL; every intersep region spans exactly x in
\* [ixseps1', ixseps2') between the two ordered, adjusted separatrix
\* indices; and the intersep y-chain is lower_inner_intersep ->
\* inner_intersep -> outer_intersep -> lower_outer_intersep with
\* upper_outer_intersep -> upper_inner_intersep.
C20_DisconnectedDoubleNullTopology ==
    (Built /\ topology = "disconnected-double-null") =>
        /\ Cardinality(DOMAIN regions) = 18
        /\ HasConnections({
             <<"lower_inner_PFR", <<None, "lower_inner_intersep", None, "lower_outer_PFR">> >>,
             <<"lower_inner_intersep", <<"lower_inner_PFR", "lower_inner_SOL", None, "inner_intersep">> >>,
             <<"lower_inner_SOL", <<"lower_inner_intersep", None, None, "inner_SOL">> >>,
             <<"inner_core", <<None, "inner_intersep", "outer_core", "outer_core">> >>,
             <<"inner_intersep", <<"inner_core", "inner_SOL", "lower_inner_intersep", "outer_intersep">> >>,
             <<"inner_SOL", <<"inner_intersep", None, "lower_inner_SOL", "upper_inner_SOL">> >>,
             <<"upper_inner_PFR", <<None, "upper_inner_intersep", "upper_outer_PFR", None>> >>,
             <<"upper_inner_intersep", <<"upper_inner_PFR", "upper_inner_SOL", "upper_outer_intersep", None>> >>,
             <<"upper_inner_SOL", <<"upper_inner_intersep", None, "inner_SOL", None>> >>,
             <<"upper_outer_PFR", <<None, "upper_outer_intersep", None, "upper_inner_PFR">> >>,
             <<"upper_outer_intersep", <<"upper_outer_PFR", "upper_outer_SOL", None, "upper_inner_intersep">> >>,
             <<"upper_outer_SOL", <<"upper_outer_intersep", None, None, "outer_SOL">> >>,
             <<"outer_core", <<None, "outer_intersep", "inner_core", "inner_core">> >>,
             <<"outer_intersep", <<"outer_core", "outer_SOL", "inner_intersep", "lower_outer_intersep">> >>,
             <<"outer_SOL", <<"outer_intersep", None, "upper_outer_SOL", "lower_outer_SOL">> >>,
             <<"lower_outer_PFR", <<None, "lower_outer_intersep", "lower_inner_PFR", None>> >>,
             <<"lower_outer_intersep", <<"lower_outer_PFR", "lower_outer_SOL", "outer_intersep", None>> >>,
             <<"lower_outer_SOL", <<"lower_outer_intersep", None, "outer_SOL", None>> >> })
        /\ Adjusted(metadata).ixs1 <= Adjusted(metadata).ixs2
        /\ \A k \in {"lower_inner_intersep", "inner_intersep",
                     "upper_inner_intersep", "upper_outer_intersep",
                     "outer_intersep", "lower_outer_intersep"} :
              /\ regions[k].xinner_ind = Adjusted(metadata).ixs1
              /\ regions[k].xouter_ind = Adjusted(metadata).ixs2

\* a registry built for a disconnected-double-null grid whose intersep band
\* is not empty
C20_Witness ==
    /\ Built /\ topology = "disconnected-double-null"
    /\ regions["inner_intersep"].nx > 0
    /\ regions["inner_intersep"].connection_upper_y = "outer_intersep"

\* C21 - keyed by name: in every built registry, for every key k the stored
\* region's name field equals k, and region names are pairwise distinct.
C21_KeyedByName ==
    Built =>
        /\ \A k \in DOMAIN regions : regions[k].name = k
        /\ \A k1, k2 \in DOMAIN regions :
              k1 # k2 => regions[k1].name # regions[k2].name

\* the y breakpoints after the boundary shift: with b = keep_yboundaries *
\* MYG, the clamped and ordered breakpoints moved by b, 2b, 3b, 3b and ny by
\* 4b when there is an upper X-point, all by b and ny by 2b when there is none
ShiftedY(md) ==
    LET c == Clamped(md)
        b == md.keep_yboundaries * md.MYG
    IN  IF md.jyseps2_1 # md.jyseps1_2
        THEN [jys11 |-> c.jys11 + b, jys21 |-> c.jys21 + b,
              nyinner |-> c.nyinner + 2 * b, jys12 |-> c.jys12 + 3 * b,
              jys22 |-> c.jys22 + 3 * b, ny |-> c.ny + 4 * b]
        ELSE [jys11 |-> c.jys11 + b, jys21 |-> c.jys21 + b,
              nyinner |-> c.nyinner + b, jys12 |-> c.jys12 + b,
              jys22 |-> c.jys22 + b, ny |-> c.ny + 2 * b]

\* the y bounds of a region
YBounds(k) == <<regions[k].ylower_ind, regions[k].yupper_ind>>

\* C22 - y-breakpoint shift: the region y-bounds are the breakpoints shifted
\* by b, b, 2b, 3b, 3b and ny by 4b (b = keep_yboundaries * MYG) if there is
\* an upper X-point, and every breakpoint by b and ny by 2b if there is none;
\* with keep_yboundaries = 0 nothing is shifted.
C22_YBreakpointShift ==
    Built =>
        LET y == ShiftedY(metadata)
            c == Clamped(metadata)
        IN  /\ GlobalNy(metadata) = y.ny
            /\ metadata.keep_yboundaries = 0 =>
                  y = [jys11 |-> c.jys11, jys21 |-> c.jys21,
                       nyinner |-> c.nyinner, jys12 |-> c.jys12,
                       jys22 |-> c.jys22, ny |-> c.ny]
            /\ topology \in {"connected-double-null",
                             "disconnected-double-null"} =>
                  /\ YBounds("lower_inner_PFR") = <<0, y.jys11 + 1>>
                  /\ YBounds("inner_core") = <<y.jys11 + 1, y.jys21 + 1>>
                  /\ YBounds("upper_inner_PFR") = <<y.jys21 + 1, y.nyinner>>
                  /\ YBounds("upper_outer_PFR") = <<y.nyinner, y.jys12 + 1>>
                  /\ YBounds("outer_core") = <<y.jys12 + 1, y.jys22 + 1>>
                  /\ YBounds("lower_outer_PFR") = <<y.jys22 + 1, y.ny>>
            /\ topology = "xpoint" =>
                  /\ YBounds("lower_inner_PFR") = <<0, y.jys11 + 1>>
                  /\ YBounds("upper_inner_PFR") = <<y.jys11 + 1, y.nyinner>>
                  /\ YBounds("upper_outer_PFR") = <<y.nyinner, y.jys22 + 1>>
                  /\ YBounds("lower_outer_PFR") = <<y.jys22 + 1, y.ny>>
            /\ topology = "single-null" =>
                  /\ YBounds("inner_PFR") = <<0, y.jys11 + 1>>
                  /\ YBounds("core") = <<y.jys11 + 1, y.jys22 + 1>>
                  /\ YBounds("outer_PFR") = <<y.jys22 + 1, y.ny>>
            /\ topology \in {"sol", "limiter"} =>
                  YBounds("SOL") = <<0, y.ny>>

\* a disconnected-double-null registry built with y-boundary cells kept,
\* whose ny_inner breakpoint is moved by twice the boundary width
C22_Witness ==
    /\ Built /\ topology = "disconnected-double-null"
    /\ metadata.keep_yboundaries = 1 /\ metadata.MYG > 0
    /\ metadata.jyseps2_1 # metadata.jyseps1_2
    /\ regions["upper_inner_PFR"].yupper_ind
           = Clamped(metadata).nyinner + 2 * metadata.MYG

\* the x bounds of a region
XBounds(k) == <<regions[k].xinner_ind, regions[k].xouter_ind>>

\* the region x-bounds are 0, the clamped and ordered separatrix indices each
\* reduced by s, and the clamped nx reduced by t
XBoundsShifted(s, t) ==
    LET c == Clamped(metadata)
        ixs1 == c.ixs1 - s
        ixs2 == c.ixs2 - s
        nx == c.nx - t
    IN  /\ topology = "disconnected-double-null" =>
              /\ XBounds("inner_core") = <<0, ixs1>>
              /\ XBounds("inner_intersep") = <<ixs1, ixs2>>
              /\ XBounds("inner_SOL") = <<ixs2, nx>>
        /\ topology = "connected-double-null" =>
              /\ XBounds("inner_core") = <<0, ixs1>>
              /\ XBounds("inner_SOL") = <<ixs2, nx>>
        /\ topology = "xpoint" =>
              /\ XBounds("lower_inner_PFR") = <<0, ixs1>>
              /\ XBounds("lower_inner_SOL") = <<ixs1, nx>>
        /\ topology \in {"single-null", "limiter"} =>
              /\ XBounds("core") = <<0, ixs1>>
              /\ XBounds("SOL") = <<ixs1, nx>>
        /\ topology = "core" => XBounds("core") = <<0, nx>>
        /\ topology = "sol" => XBounds("SOL") = <<0, nx>>

\* C23 - x-boundary shift: when keep_xboundaries = 0 the two separatrix
\* indices and nx used as region x-bounds are the clamped, ordered metadata
\* values each reduced by exactly MXG; when keep_xboundaries = 1 they are
\* used unshifted.
C23_Original ==
    Built =>
        IF metadata.keep_xboundaries = 0
        THEN XBoundsShifted(metadata.MXG, metadata.MXG)
        ELSE XBoundsShifted(0, 0)

\* C23 (amended) - x-boundary shift: when keep_xboundaries = 0 the two
\* separatrix indices are the clamped, ordered metadata values each reduced
\* by exactly MXG and nx is the metadata value reduced by 2 * MXG (the
\* boundary cells of both x edges); when keep_xboundaries = 1 they are used
\* unshifted.
C23_XBoundaryShift ==
    Built =>
        IF metadata.keep_xboundaries = 0
        THEN XBoundsShifted(metadata.MXG, 2 * metadata.MXG)
        ELSE XBoundsShifted(0, 0)

\* a registry built without x-boundary cells for a grid with x guard cells
C23_Witness ==
    /\ Built /\ metadata.keep_xboundaries = 0 /\ metadata.MXG > 0
    /\ topology = "disconnected-double-null"
    /\ regions["inner_SOL"].xouter_ind = metadata.nx - 2 * metadata.MXG

\* the builder got past the classifier and so carried out the clamping
Clamping == pc \in {"built", "failed"} /\ err # "ValueError"

\* C24 - clamping and ordering: before the boundary adjustment the
\* separatrix indices are clamped into [0, nx] and ordered, every jyseps
\* index is clamped into [0, ny - 1], the inner cuts are ordered and
\* ny_inner is clamped into [jyseps2_1 + 1, jyseps1_2 + 1]; hence
\* 0 <= ixseps1 <= ixseps2 <= nx and jyseps2_1 + 1 <= ny_inner <=
\* jyseps1_2 + 1 at that point, whatever the integer inputs.  Where no
\* boundary shift applies the region bounds show the same order.
C24_ClampingAndOrdering ==
    Clamping =>
        LET c == Clamped(metadata)
            md == metadata
        IN  /\ 0 <= c.ixs1 /\ c.ixs1 <= c.ixs2 /\ c.ixs2 <= md.nx
            /\ \A j \in {c.jys11, c.jys21, c.jys12, c.jys22} :
                  0 <= j /\ j <= md.ny - 1
            /\ c.jys21 <= c.jys12
            /\ c.jys21 + 1 <= c.nyinner /\ c.nyinner <= c.jys12 + 1
            /\ {c.ixs1, c.ixs2} = {_in_range(md.ixseps1, 0, md.nx),
                                   _in_range(md.ixseps2, 0, md.nx)}
            /\ {c.jys21, c.jys12} = {_in_range(md.jyseps2_1, 0, md.ny - 1),
                                     _in_range(md.jyseps1_2, 0, md.ny - 1)}
            /\ c.jys11 = _in_range(md.jyseps1_1, 0, md.ny - 1)
            /\ c.jys22 = _in_range(md.jyseps2_2, 0, md.ny - 1)
            /\ (0 <= md.ixseps1 /\ md.ixseps1 <= md.ixseps2
                    /\ md.ixseps2 <= md.nx) =>
                  c.ixs1 = md.ixseps1 /\ c.ixs2 = md.ixseps2
            /\ (Built /\ (md.keep_xboundaries = 1 \/ md.MXG = 0)) =>
                  \A k \in DOMAIN regions :
                      /\ 0 <= regions[k].xinner_ind
                      /\ regions[k].xinner_ind <= regions[k].xouter_ind
                      /\ regions[k].xouter_ind <= md.nx
            /\ (Built /\ (md.keep_yboundaries = 0 \/ md.MYG = 0)
                      /\ topology \in {"connected-double-null",
                                       "disconnected-double-null"}) =>
                  /\ regions["upper_inner_PFR"].ylower_ind
                         <= regions["upper_inner_PFR"].yupper_ind
                  /\ regions["upper_outer_PFR"].ylower_ind
                         <= regions["upper_outer_PFR"].yupper_ind

\* a registry built from separatrix indices given in the wrong order and
\* beyond nx, inner cuts given in the wrong order or out of range, and an
\* ny_inner outside the inner cuts
C24_Witness ==
    /\ Built
    /\ metadata.ixseps2 < metadata.ixseps1 \/ metadata.ixseps2 > metadata.nx
    /\ metadata.jyseps1_2 < metadata.jyseps2_1
    /\ Clamped(metadata).nyinner # metadata.ny_inner

\* an x stitcher has been applied, with a positive width, to the interior
\* array of region_name
StitchedX ==
    /\ pc = "stitched" /\ call.width > 0
    /\ call.stitcher \in {"_concat_inner_guards", "_concat_outer_guards"}

\* the x-neighbour across the seam the stitcher fills
SeamNeighbour ==
    IF call.stitcher = "_concat_inner_guards"
    THEN ExtractedRegion.connection_inner_x
    ELSE ExtractedRegion.connection_outer_x

\* rows removed from (Strip) or added to (Add) the neighbour's block at the
\* lower and the upper y edge: MYG where exactly one of A and B has a
\* y-connection there, with y-boundary cells kept
LowerStrip ==
    IF ExtractedRegion.connection_lower_y # None
       /\ regions[SeamNeighbour].connection_lower_y = None
    THEN metadata.MYG ELSE 0
UpperStrip ==
    IF ExtractedRegion.connection_upper_y # None
       /\ regions[SeamNeighbour].connection_upper_y = None
    THEN metadata.MYG ELSE 0
LowerAdd ==
    IF ExtractedRegion.connection_lower_y = None
       /\ regions[SeamNeighbour].connection_lower_y # None
    THEN metadata.MYG ELSE 0
UpperAdd ==
    IF ExtractedRegion.connection_upper_y = None
       /\ regions[SeamNeighbour].connection_upper_y # None
    THEN metadata.MYG ELSE 0

\* the global y index of row j of the reconciled block: added rows come from
\* the adjacent edge of B's y-neighbour, the others are B's rows without the
\* stripped ones
SeamRowY(j) ==
    LET B == regions[SeamNeighbour]
        kept == B.ny - LowerStrip - UpperStrip
    IN  IF j <= LowerAdd
        THEN regions[B.connection_lower_y].yupper_ind - LowerAdd + j - 1
        ELSE IF j <= LowerAdd + kept
        THEN B.ylower_ind + LowerStrip + (j - LowerAdd) - 1
        ELSE regions[B.connection_upper_y].ylower_ind
                 + (j - LowerAdd - kept) - 1

\* C25 - y-edge reconciliation: stitching x-guards for A from its x-neighbour
\* B with keep_yboundaries = 1 and MYG > 0, at each y edge MYG rows are
\* removed from B's block where A has a y-connection and B has none, and MYG
\* rows from the adjacent edge of B's y-neighbour are added where B has one
\* and A has none; the block then has as many rows as A, and the
\* concatenation never fails on a shape mismatch (the only failure is that
\* of the coordinates of a neighbour narrower than the width).
C25_YEdgeReconciliation ==
    (/\ StitchedX /\ SeamNeighbour # None
     /\ metadata.keep_yboundaries = 1 /\ metadata.MYG > 0) =>
        LET B == regions[SeamNeighbour]
            gw == result.w - InteriorW
            first == IF call.stitcher = "_concat_inner_guards"
                     THEN 0 ELSE InteriorW
        IN  /\ LowerAdd + B.ny - LowerStrip - UpperStrip + UpperAdd = InteriorH
            /\ ~result.ok => (has_coords /\ B.nx < call.width)
            /\ result.ok =>
                  /\ result.h = InteriorH
                  /\ gw = IF B.nx < call.width THEN B.nx ELSE call.width
                  /\ \A i \in 1..gw, j \in 1..InteriorH :
                        result.at[first + i, j][2] = SeamRowY(j)

\* the inner guards of the limiter SOL, whose boundary rows are filled from
\* the core's own y-neighbour
C25_Witness ==
    /\ StitchedX /\ SeamNeighbour # None /\ result.ok
    /\ metadata.keep_yboundaries = 1 /\ metadata.MYG > 0
    /\ LowerAdd > 0 /\ UpperAdd > 0

\* C26 - region annotation preserved: after any sequence of the four
\* stitching operations applied to an array extracted for region A, the
\* result's region annotation is A (same bounds and connections), never that
\* of a neighbour or of a transitively fetched region.
C26_RegionAnnotationPreserved ==
    (pc = "stitched" /\ result.ok) =>
        /\ result.region = region_name
        /\ regions[result.region] = ExtractedRegion
        /\ call.da.region = region_name

\* lower guards stitched onto an array that already carries x guards, from
\* a neighbour that is another region
C26_Witness ==
    /\ pc = "stitched" /\ result.ok
    /\ call.stitcher = "_concat_lower_guards" /\ call.depth = MaxSeq
    /\ call.da.w > InteriorW /\ result.h > call.da.h
    /\ ExtractedRegion.connection_lower_y # region_name

\* what the call recorded in c returns when it is made on the array da
Recall(c, da) ==
    IF c.stitcher = "_concat_inner_guards"
    THEN _concat_inner_guards(da, regions, metadata, has_coords, c.width)
    ELSE IF c.stitcher = "_concat_outer_guards"
    THEN _concat_outer_guards(da, regions, metadata, has_coords, c.width)
    ELSE IF c.stitcher = "_concat_lower_guards"
    THEN _concat_lower_guards(da, regions, metadata, has_coords,
                              c.other, c.width)
    ELSE IF c.stitcher = "_concat_upper_guards"
    THEN _concat_upper_guards(da, regions, metadata, has_coords,
                              c.other, c.width)
    ELSE da

\* a call made after the build: a slice method or a stitcher
CallStep == pc \in {"extracted", "stitched"} /\ pc' = "stitched"

C28_BoundedNeighbourResolution ==
    pc = "extracted" =>
        /\ result.ok \/ result.err \in {"ValueError", "KeyError"}
        /\ FetchHops(regions, metadata, region_name, ReqX, ReqY, MaxFetch) <= 2
        /\ (ReqX > 0 /\ ReqY = 0) =>
              FetchHops(regions, metadata, region_name, ReqX, ReqY, MaxFetch)
                  <= (IF metadata.keep_yboundaries = 1 /\ metadata.MYG > 0
                      THEN 2 ELSE 1)

\* the guards of inner_core resolved on both axes in a double-null grid: its
\* y-neighbour outer_core, whose y-neighbour is inner_core again, is fetched
\* with its own x guards
C28_Witness ==
    /\ pc = "extracted" /\ result.ok
    /\ region_name = "inner_core" /\ ReqX > 0 /\ ReqY > 0
    /\ ExtractedRegion.connection_upper_y = "outer_core"
    /\ FetchHops(regions, metadata, region_name, ReqX, ReqY, MaxFetch) = 2

\* C29 - y-connected regions are x-aligned: in every registry, if
\* regions[A].connection_upper_y = B then A and B have identical xinner_ind
\* and xouter_ind and the same presence or absence of inner-x and of outer-x
\* connections, so B with its x-guards has exactly the x extent of A with
\* its x-guards.
C29_YConnectedAligned ==
    Built =>
        \A k \in DOMAIN regions :
            regions[k].connection_upper_y # None =>
                LET A == regions[k]
                    B == regions[A.connection_upper_y]
                IN  /\ A.xinner_ind = B.xinner_ind
                    /\ A.xouter_ind = B.xouter_ind
                    /\ (A.connection_inner_x = None)
                           <=> (B.connection_inner_x = None)
                    /\ (A.connection_outer_x = None)
                           <=> (B.connection_outer_x = None)
                    /\ \A g \in 0..MaxG :
                          Extended(A.xinner_ind, A.connection_inner_x,
                                   A.xouter_ind, A.connection_outer_x, g)
                            = Extended(B.xinner_ind, B.connection_inner_x,
                                       B.xouter_ind, B.connection_outer_x, g)

\* a single-null registry whose inner SOL leg, x-connected to the inner PFR
\* leg, continues upwards into the main SOL, x-connected to the core
C29_Witness ==
    /\ Built /\ topology = "single-null"
    /\ regions["inner_SOL"].connection_upper_y = "SOL"
    /\ regions["inner_SOL"].connection_inner_x = "inner_PFR"
    /\ regions["SOL"].connection_inner_x = "core"
    /\ regions["inner_SOL"].nx > 0

\* C30 - x-connected regions abut: in every registry, every non-null
\* connection names an existing registry key, no region is its own
\* x-neighbour, and if regions[A].connection_outer_x = B then A.xouter_ind =
\* B.xinner_ind (one shared x index, no gap and no overlap).
C30_XConnectedAbut ==
    Built =>
        \A k \in DOMAIN regions :
            LET A == regions[k]
            IN  /\ \A c \in {A.connection_inner_x, A.connection_outer_x,
                             A.connection_lower_y, A.connection_upper_y} :
                      c # None => c \in DOMAIN regions
                /\ A.connection_inner_x # k
                /\ A.connection_outer_x # k
                /\ A.connection_outer_x # None =>
                      A.xouter_ind = regions[A.connection_outer_x].xinner_ind
                /\ A.connection_inner_x # None =>
                      A.xinner_ind = regions[A.connection_inner_x].xouter_ind

\* a connected-double-null registry, whose SOL column starts at the second
\* separatrix index and whose core column ends at the first
C30_Witness ==
    /\ Built /\ topology = "connected-double-null"
    /\ regions["inner_core"].connection_outer_x = "inner_SOL"
    /\ regions["inner_core"].xouter_ind = regions["inner_SOL"].xinner_ind
    /\ regions["inner_core"].nx > 0 /\ regions["inner_SOL"].nx > 0

====
